---- MODULE Spec2Model ----
(***************************************************************************)
(* Model of the SQL chatbot backend (src/llm_chatbot_backend.py): the      *)
(* session store, the feedback ledger and the POST /query pipeline.        *)
(*                                                                         *)
(* Text is modelled as a sequence of lexical atoms (a word, a space, a     *)
(* newline, a punctuation mark, a code fence, or a fixed phrase).  The     *)
(* regular expressions and string methods of the source are translated to  *)
(* operators over such sequences.  Len counts atoms, so the character      *)
(* limits of the source (500, 100, 50) are scaled to a few atoms.          *)
(* A code fence (three backticks) is written ''' in the atoms.             *)
(* Timestamps (datetime.now()) and message ids (uuid4) are not modelled.   *)
(***************************************************************************)
EXTENDS Integers, Sequences, FiniteSets, TLC

\* ------------------------------------------------------------------ text

WS == {" ", "\n"}

\* Python None for an Optional[str]; a str is a sequence of atoms.
None == <<"<None>">>

Truthy(s) == s # None /\ s # <<>>

Min(a, b) == IF a <= b THEN a ELSE b

\* s[:n]
Prefix(s, n) == SubSeq(s, 1, Min(Len(s), n))

\* s[i:] with a 1-based first index
From(s, i) == SubSeq(s, i, Len(s))

RECURSIVE lstrip(_)
lstrip(s) == IF s # <<>> /\ Head(s) \in WS THEN lstrip(Tail(s)) ELSE s

RECURSIVE rstrip(_)
rstrip(s) == IF s # <<>> /\ s[Len(s)] \in WS THEN rstrip(SubSeq(s, 1, Len(s) - 1)) ELSE s

\* str.strip()
strip(s) == rstrip(lstrip(s))

\* The case pairs of the atoms that have an upper- or mixed-case spelling.
CasePairs ==
  { <<"SELECT", "select">>, <<"Select", "select">>,
    <<"FROM", "from">>, <<"From", "from">>,
    <<"WHERE", "where">>, <<"JOIN", "join">>, <<"Join", "join">>,
    <<"AND", "and">>, <<"GROUP", "group">>, <<"ORDER", "order">>,
    <<"BY", "by">>, <<"HAVING", "having">>, <<"LEFT", "left">>,
    <<"RIGHT", "right">>, <<"INNER", "inner">>,
    <<"AP_AMOUNT", "ap_amount">>, <<"AP_REFERENCE", "ap_reference">>,
    <<"EXTRACT", "extract">>, <<"YEAR", "year">>,
    <<"DATE_STAMP", "date_stamp">>, <<"BILL_YEAR", "bill_year">>,
    <<"Bills", "bills">>, <<"Hi", "hi">>, <<"Hello", "hello">>,
    <<"Error", "error">>, <<"Folio", "folio">>, <<"Folios", "folios">>,
    <<"'''SQL", "'''sql">>, <<"Greet", "greet">>, <<"QUERY", "query">>,
    <<"**Explanation:**", "**explanation:**">>,
    <<"Explanation:", "explanation:">>,
    <<"Context", "context">>, <<"Size", "size">>,
    <<"This query:", "this query:">>, <<"The query:", "the query:">>,
    <<"Brief explanation:", "brief explanation:">>,
    <<"Query explanation:", "query explanation:">> }

\* str.lower() of one atom
LowerAtom(a) ==
  IF \E p \in CasePairs : p[1] = a
  THEN (CHOOSE p \in CasePairs : p[1] = a)[2]
  ELSE a

\* str.lower()
lower(s) == [i \in 1..Len(s) |-> LowerAtom(s[i])]

\* Atoms that are not Python identifiers (punctuation, numbers, fences, blanks).
NonIdentifiers ==
  WS \cup { ";", ",", ".", "(", ")", "=", "*", "'", "'''", "'''sql", "'''SQL",
            "2024", "12", "999-999-99-9", "**Explanation:**", "Explanation:",
            "<bullet>", "...", "?", "-", "- ", "'value'",
            "This query:", "The query:", "Brief explanation:",
            "Query explanation:" }

\* str.isidentifier() of a one-atom token; [A-Za-z_][A-Za-z0-9_]* of the regexes
IsIdentifier(a) == a \notin NonIdentifiers

\* s.startswith(p) at 1-based index i
MatchesAt(s, i, p) ==
  /\ i + Len(p) - 1 <= Len(s)
  /\ \A k \in 1..Len(p) : s[i + k - 1] = p[k]

\* p in s
Contains(s, p) == \E i \in 1..Len(s) : MatchesAt(s, i, p)

\* str.replace(old, new): non-overlapping occurrences, left to right
RECURSIVE replace(_, _, _)
replace(s, old, new) ==
  IF s = <<>> THEN <<>>
  ELSE IF MatchesAt(s, 1, old) THEN new \o replace(From(s, Len(old) + 1), old, new)
  ELSE <<Head(s)>> \o replace(Tail(s), old, new)

\* re.split(pattern, s) for a literal pattern: the pieces between occurrences
RECURSIVE SplitAcc(_, _, _)
SplitAcc(s, pat, cur) ==
  IF s = <<>> THEN <<cur>>
  ELSE IF MatchesAt(s, 1, pat) THEN <<cur>> \o SplitAcc(From(s, Len(pat) + 1), pat, <<>>)
  ELSE SplitAcc(Tail(s), pat, Append(cur, Head(s)))

split(s, pat) == SplitAcc(s, pat, <<>>)

\* Index of the first atom at or after i that is not whitespace (Len(s)+1 if none)
RECURSIVE SkipWs(_, _)
SkipWs(s, i) == IF i <= Len(s) /\ s[i] \in WS THEN SkipWs(s, i + 1) ELSE i

\* ", ".join(xs) for a list of one-atom strings
RECURSIVE JoinComma(_)
JoinComma(xs) ==
  IF xs = <<>> THEN <<>>
  ELSE IF Len(xs) = 1 THEN <<xs[1]>>
  ELSE <<xs[1], ",", " ">> \o JoinComma(Tail(xs))

FirstIdx(S) == CHOOSE i \in S : \A j \in S : i <= j

\* ------------------------------------------------- schema and SQL helpers

\* The deny-list of hallucinated columns (KNOWN_HALLUCINATIONS["banned_columns"]).
BANNED_COLUMNS == <<"AP_AMOUNT", "AP_REFERENCE">>

\* A fixture of what _load_schema_index builds from the schema directory:
\* lower-cased table name -> set of lower-cased column names.
SCHEMA_INDEX ==
  [t \in {"bills", "folio"} |->
     IF t = "bills" THEN {"amount", "reference", "bill_year"}
     ELSE {"folio_number", "status"}]

\* SQL_CLAUSE_BREAKS, each with its kw.upper() spelling.
SQL_CLAUSE_BREAKS ==
  << [lo |-> <<" ", "select", " ">>, up |-> <<" ", "SELECT", " ">>],
     [lo |-> <<" ", "from", " ">>, up |-> <<" ", "FROM", " ">>],
     [lo |-> <<" ", "where", " ">>, up |-> <<" ", "WHERE", " ">>],
     [lo |-> <<" ", "group", " ", "by", " ">>, up |-> <<" ", "GROUP", " ", "BY", " ">>],
     [lo |-> <<" ", "order", " ", "by", " ">>, up |-> <<" ", "ORDER", " ", "BY", " ">>],
     [lo |-> <<" ", "having", " ">>, up |-> <<" ", "HAVING", " ">>],
     [lo |-> <<" ", "join", " ">>, up |-> <<" ", "JOIN", " ">>],
     [lo |-> <<" ", "left", " ", "join", " ">>, up |-> <<" ", "LEFT", " ", "JOIN", " ">>],
     [lo |-> <<" ", "right", " ", "join", " ">>, up |-> <<" ", "RIGHT", " ", "JOIN", " ">>],
     [lo |-> <<" ", "inner", " ", "join", " ">>, up |-> <<" ", "INNER", " ", "JOIN", " ">>] >>

\* The loop of vertical_format_sql over SQL_CLAUSE_BREAKS, from entry k on.
RECURSIVE BreakClauses(_, _)
BreakClauses(s, k) ==
  IF k > Len(SQL_CLAUSE_BREAKS) THEN s
  ELSE LET kw == SQL_CLAUSE_BREAKS[k]
           new == <<"\n">> \o strip(kw.up) \o <<" ">>
       IN BreakClauses(replace(replace(s, kw.lo, new), kw.up, new), k + 1)

vertical_format_sql(sql) ==
  IF ~Truthy(sql) THEN sql
  ELSE LET s0 == <<" ">> \o replace(strip(sql), <<"\n">>, <<" ">>) \o <<" ">>
           s1 == BreakClauses(s0, 1)
           s2 == replace(replace(s1, <<" ", "AND", " ">>, <<"\n", " ", " ", "AND", " ">>),
                         <<" ", "and", " ">>, <<"\n", " ", " ", "AND", " ">>)
       IN strip(s2)

\* The identifier a regex reads at the end of atom a: the atom itself, or the
\* "sql" that ends an opening fence; "<None>" when a ends in no identifier.
TrailingIdentifier(a) ==
  IF a = "'''sql" THEN "sql"
  ELSE IF a = "'''SQL" THEN "SQL"
  ELSE IF IsIdentifier(a) THEN a
  ELSE "<None>"

\* re.findall of ([A-Za-z_]\w*)\s*\.\s*([A-Za-z_]\w*): the table.column pairs of
\* s from index i on, left to right, non-overlapping.
RECURSIVE ColumnPairs(_, _)
ColumnPairs(s, i) ==
  IF i > Len(s) THEN <<>>
  ELSE LET d == SkipWs(s, i + 1)
           c == SkipWs(s, d + 1)
       IN IF /\ TrailingIdentifier(s[i]) # "<None>"
             /\ d <= Len(s) /\ s[d] = "."
             /\ c <= Len(s) /\ IsIdentifier(s[c])
          THEN <<(<<TrailingIdentifier(s[i]), s[c]>>)>> \o ColumnPairs(s, c + 1)
          ELSE ColumnPairs(s, i + 1)

\* Faulty variant: the column is not looked up.
InSchema_table_only(pair) == LowerAtom(pair[1]) \in DOMAIN SCHEMA_INDEX

\* The pair (t, c) passes the test of the loop of check_sql_against_schema.
InSchema(pair) ==
  /\ LowerAtom(pair[1]) \in DOMAIN SCHEMA_INDEX
  /\ LowerAtom(pair[2]) \in SCHEMA_INDEX[LowerAtom(pair[1])]

check_sql_against_schema(sql) ==
  IF ~Truthy(sql) \/ DOMAIN SCHEMA_INDEX = {} THEN None
  ELSE LET pairs == ColumnPairs(sql, 1)
           bad == {i \in 1..Len(pairs) : ~InSchema(pairs[i])}
       IN IF bad = {} THEN None
          ELSE LET p == pairs[FirstIdx(bad)]
               IN <<"Invalid reference: ", p[1], ".", p[2], " is not in schema.">>

\* The first whitespace-delimited word of s (s starts with a non-blank atom).
RECURSIVE FirstWord(_)
FirstWord(s) ==
  IF s = <<>> \/ Head(s) \in WS THEN <<>> ELSE <<Head(s)>> \o FirstWord(Tail(s))

RECURSIVE lstripComma(_)
lstripComma(s) == IF s # <<>> /\ Head(s) = "," THEN lstripComma(Tail(s)) ELSE s

RECURSIVE rstripComma(_)
rstripComma(s) ==
  IF s # <<>> /\ s[Len(s)] = "," THEN rstripComma(SubSeq(s, 1, Len(s) - 1)) ELSE s

\* parts[i].strip().split()[0].strip(",")
TableToken(part) == rstripComma(lstripComma(FirstWord(strip(part))))

\* The tokens extract_tables appends for the pieces parts[k..] after a keyword.
RECURSIVE TablesOfParts(_, _)
TablesOfParts(parts, k) ==
  IF k > Len(parts) THEN <<>>
  ELSE LET token == TableToken(parts[k])
       IN (IF Len(token) = 1 /\ IsIdentifier(token[1]) THEN <<token[1]>> ELSE <<>>)
            \o TablesOfParts(parts, k + 1)

TABLE_KEYWORDS ==
  << <<" ", "from", " ">>, <<" ", "join", " ">>, <<" ", "from", "\n">>, <<" ", "join", "\n">> >>

RECURSIVE Unique(_, _)
Unique(xs, seen) ==
  IF xs = <<>> THEN <<>>
  ELSE IF Head(xs) \in seen THEN Unique(Tail(xs), seen)
  ELSE <<Head(xs)>> \o Unique(Tail(xs), seen \cup {Head(xs)})

PaddedLower(sql) == <<" ">> \o lower(sql) \o <<" ">>

\* extract_tables raises IndexError when a keyword is followed by blanks only
\* (parts[i].strip().split() is the empty list).
extract_tables_raises(sql) ==
  /\ Truthy(sql)
  /\ \E k \in 1..Len(TABLE_KEYWORDS) :
       LET parts == split(PaddedLower(sql), TABLE_KEYWORDS[k])
       IN \E i \in 2..Len(parts) : strip(parts[i]) = <<>>

extract_tables(sql) ==
  IF ~Truthy(sql) THEN <<>>
  ELSE LET of(k) == TablesOfParts(split(PaddedLower(sql), TABLE_KEYWORDS[k]), 2)
       IN Unique(of(1) \o of(2) \o of(3) \o of(4), {})

IsFenceStart(a) == LowerAtom(a) \in {"'''", "'''sql"}

\* Pattern 1, '''sql\s*(.*?)\s*''': the capture of the leftmost match, or None.
FencedSql(s) ==
  LET opens == {i \in 1..Len(s) :
                  /\ LowerAtom(s[i]) = "'''sql"
                  /\ \E j \in (i + 1)..Len(s) : IsFenceStart(s[j])}
  IN IF opens = {} THEN None
     ELSE LET i == FirstIdx(opens)
              k == SkipWs(s, i + 1)
              e == FirstIdx({x \in k..Len(s) :
                               LET f == SkipWs(s, x)
                               IN f <= Len(s) /\ IsFenceStart(s[f])})
          IN SubSeq(s, k, e - 1)

\* The ends e of SELECT.*?; starting at k that are followed by \s*'''.
FencedEnds(s, k) ==
  {e \in (k + 1)..Len(s) :
     /\ s[e] = ";"
     /\ LET f == SkipWs(s, e + 1) IN f <= Len(s) /\ IsFenceStart(s[f])}

\* Pattern 2, '''\s*(SELECT.*?;)\s*''': the capture of the leftmost match, or None.
FencedSelect(s) ==
  LET starts == {i \in 1..Len(s) :
                   /\ s[i] = "'''"
                   /\ LET k == SkipWs(s, i + 1)
                      IN /\ k <= Len(s)
                         /\ LowerAtom(s[k]) = "select"
                         /\ FencedEnds(s, k) # {}}
  IN IF starts = {} THEN None
     ELSE LET k == SkipWs(s, FirstIdx(starts) + 1)
          IN SubSeq(s, k, FirstIdx(FencedEnds(s, k)))

\* Pattern 3, (SELECT.*?;): the capture of the leftmost match, or None.
BareSelect(s) ==
  LET starts == {k \in 1..Len(s) :
                   /\ LowerAtom(s[k]) = "select"
                   /\ \E e \in (k + 1)..Len(s) : s[e] = ";"}
  IN IF starts = {} THEN None
     ELSE LET k == FirstIdx(starts)
          IN SubSeq(s, k, FirstIdx({e \in (k + 1)..Len(s) : s[e] = ";"}))

\* Faulty variant: the bare statement is looked for first.
FirstPatternMatch_bare_first(s) ==
  IF BareSelect(s) # None THEN strip(BareSelect(s))
  ELSE IF FencedSql(s) # None THEN strip(FencedSql(s))
  ELSE IF FencedSelect(s) # None THEN strip(FencedSelect(s))
  ELSE None

\* The first pattern of sql_patterns that matches, its first match stripped.
FirstPatternMatch(s) ==
  IF FencedSql(s) # None THEN strip(FencedSql(s))
  ELSE IF FencedSelect(s) # None THEN strip(FencedSelect(s))
  ELSE IF BareSelect(s) # None THEN strip(BareSelect(s))
  ELSE None

extract_sql_from_response(response_text) == FirstPatternMatch(response_text)

\* QueryValidator.extract_sql_query
extract_sql_query(response_text) ==
  IF FirstPatternMatch(response_text) # None THEN FirstPatternMatch(response_text)
  ELSE strip(response_text)

\* EXTRACT\s*\(\s*YEAR\s+FROM\s+DATE_STAMP\s*\) matched at index i
ExtractYearAt(s, i) ==
  LET a == SkipWs(s, i + 1)
      b == SkipWs(s, a + 1)
      c == SkipWs(s, b + 1)
      d == SkipWs(s, c + 1)
      e == SkipWs(s, d + 1)
  IN /\ LowerAtom(s[i]) = "extract"
     /\ e <= Len(s)
     /\ s[a] = "(" /\ LowerAtom(s[b]) = "year"
     /\ c > b + 1 /\ LowerAtom(s[c]) = "from"
     /\ d > c + 1 /\ LowerAtom(s[d]) = "date_stamp"
     /\ s[e] = ")"

\* YEAR\s*\(\s*DATE_STAMP\s*\) matched at index i
YearOfAt(s, i) ==
  LET a == SkipWs(s, i + 1)
      b == SkipWs(s, a + 1)
      c == SkipWs(s, b + 1)
  IN /\ LowerAtom(s[i]) = "year"
     /\ c <= Len(s)
     /\ s[a] = "(" /\ LowerAtom(s[b]) = "date_stamp" /\ s[c] = ")"

validate_schema_adherence(sql_query) ==
  IF ~Truthy(sql_query) THEN None
  ELSE LET hit == {k \in 1..Len(BANNED_COLUMNS) :
                     \E i \in 1..Len(sql_query) :
                        LowerAtom(sql_query[i]) = LowerAtom(BANNED_COLUMNS[k])}
       IN IF hit # {}
          THEN (IF BANNED_COLUMNS[FirstIdx(hit)] = "AP_AMOUNT"
                THEN <<"Invalid column 'AP_AMOUNT' found. Use 'AMOUNT' instead.">>
                ELSE <<"Invalid column 'AP_REFERENCE' found. Use 'REFERENCE' instead.">>)
          ELSE IF (\E i \in 1..Len(sql_query) :
                      ExtractYearAt(sql_query, i) \/ YearOfAt(sql_query, i))
          THEN <<"Don't use EXTRACT(YEAR FROM DATE_STAMP) or YEAR(DATE_STAMP). Use BILL_YEAR column instead.">>
          ELSE None

\* ------------------------------------------- limits of the source, scaled

\* lessons[:500] of append_feedback_lesson
LESSON_CAP == 3
\* lessons[:100] of load_feedback_lessons
LESSONS_IN_PROMPT == 2
\* request.message[:500] of the feedback branch
MESSAGE_CUT == 5
\* first_message[:50] of create_session_title
TITLE_CUT == 3
\* len(remaining_text) > 10 of validate_and_refine_query
EXPLANATION_MIN == 2
\* remaining_text[:200] of validate_and_refine_query
EXPLANATION_CUT == 4

\* ------------------------------------------------------ the feedback ledger

Range(s) == {s[i] : i \in 1..Len(s)}

\* The ledger file: exists is FEEDBACK_PATH.exists(), lessons its "lessons" list.
NoLedger == [exists |-> FALSE, lessons |-> <<>>]

\* "\n".join(f"- {l}" for l in ls)
RECURSIVE JoinLessons(_)
JoinLessons(ls) ==
  IF ls = <<>> THEN <<>>
  ELSE IF Len(ls) = 1 THEN <<"- ">> \o ls[1]
  ELSE <<"- ">> \o ls[1] \o <<"\n">> \o JoinLessons(Tail(ls))

load_feedback_lessons(lg) ==
  IF lg.exists /\ lg.lessons # <<>>
  THEN JoinLessons(Prefix(lg.lessons, LESSONS_IN_PROMPT))
  ELSE <<>>

\* Faulty variant: the lesson is inserted without the membership test.
append_feedback_lesson_unchecked(lg, lesson) ==
  LET lessons == IF lg.exists THEN lg.lessons ELSE <<>>
  IN IF lesson # <<>>
     THEN [exists |-> TRUE, lessons |-> Prefix(<<lesson>> \o lessons, LESSON_CAP)]
     ELSE lg

\* Faulty variant: the list is written without the cut.
append_feedback_lesson_uncut(lg, lesson) ==
  LET lessons == IF lg.exists THEN lg.lessons ELSE <<>>
  IN IF lesson # <<>> /\ lesson \notin Range(lessons)
     THEN [exists |-> TRUE, lessons |-> <<lesson>> \o lessons]
     ELSE lg

\* The ledger file after append_feedback_lesson(lesson).
append_feedback_lesson(lg, lesson) ==
  LET lessons == IF lg.exists THEN lg.lessons ELSE <<>>
  IN IF lesson # <<>> /\ lesson \notin Range(lessons)
     THEN [exists |-> TRUE, lessons |-> Prefix(<<lesson>> \o lessons, LESSON_CAP)]
     ELSE lg

\* Faulty variant: the message is recorded without the cut.
FeedbackLesson_uncut(message) == <<"User-reported error/context: ">> \o message

\* f"User-reported error/context: {request.message[:500]}"
FeedbackLesson(message) == <<"User-reported error/context: ">> \o Prefix(message, MESSAGE_CUT)

\* ---------------------------------------------------------- chat sessions

NoSession == "<None>"

ChatMessage(role, content, sql_query, explanation) ==
  [role |-> role, content |-> content, sql_query |-> sql_query, explanation |-> explanation]

ChatSession(session_id, title, messages) ==
  [session_id |-> session_id, title |-> title, messages |-> messages]

\* The Python None that load_chat_session returns for a missing file.
NoChatSession == ChatSession(NoSession, <<>>, <<>>)

\* fs maps the name (without .json) of each file of chatbot_data to its content.
load_chat_session(fs, session_id) ==
  IF session_id \in DOMAIN fs THEN fs[session_id] ELSE NoChatSession

\* Faulty variant: every session is written to the file of the first id.
save_chat_session_one_file(fs, s) ==
  [id \in DOMAIN fs \cup {"s1"} |-> IF id = "s1" THEN s ELSE fs[id]]

save_chat_session(fs, s) ==
  [id \in DOMAIN fs \cup {s.session_id} |-> IF id = s.session_id THEN s ELSE fs[id]]

create_session_title(first_message) ==
  strip(Prefix(first_message, TITLE_CUT))
    \o (IF Len(first_message) > TITLE_CUT THEN <<"...">> ELSE <<>>)

\* Faulty variant: the message is put first.
AppendMessage_first(s, msg) == [s EXCEPT !.messages = <<msg>> \o @]

\* session.messages.append(msg)
AppendMessage(s, msg) == [s EXCEPT !.messages = Append(@, msg)]

\* ------------------------------------------------- intent and clarification

\* The atoms of the messages that contain the word w as a substring.
AtomsContaining(w) ==
  CASE w = "error" -> {"error", "errors"}
    [] w = "line" -> {"line", "lines", "online"}
    [] w = "column" -> {"column", "columns"}
    [] w = "syntax" -> {"syntax"}
    [] w = "folio" -> {"folio", "folios", "portfolio"}
    [] w = "999-999-99-9" -> {"999-999-99-9"}

\* w in m, for a word w
HasWord(m, w) == \E i \in 1..Len(m) : m[i] \in AtomsContaining(w)

INTENTS == {"greet", "feedback", "query", "irrelevant"}

\* Faulty variant: a message that is neither feedback nor greeting gets no label.
classify_intent_unlabelled(message) ==
  LET m == lower(strip(message))
  IN IF HasWord(m, "error") /\ (HasWord(m, "line") \/ HasWord(m, "column") \/ HasWord(m, "syntax"))
     THEN "feedback"
     ELSE IF m \in {<<"hi">>, <<"hello">>, <<"hey">>, <<"yo">>, <<"sup">>, <<"hola">>}
     THEN "greet"
     ELSE "unknown"

\* Faulty variant: the greeting test comes before the feedback test.
classify_intent_greeting_first(message) ==
  LET m == lower(strip(message))
  IN IF \/ m \in {<<"hi">>, <<"hello">>, <<"hey">>, <<"yo">>, <<"sup">>, <<"hola">>}
        \/ (m # <<>> /\ m[1] = "hello")
     THEN "greet"
     ELSE IF HasWord(m, "error") /\ (HasWord(m, "line") \/ HasWord(m, "column") \/ HasWord(m, "syntax"))
     THEN "feedback"
     ELSE "query"

classify_intent(message) ==
  LET m == lower(strip(message))
  IN IF HasWord(m, "error") /\ (HasWord(m, "line") \/ HasWord(m, "column") \/ HasWord(m, "syntax"))
     THEN "feedback"
     ELSE IF \/ m \in {<<"hi">>, <<"hello">>, <<"hey">>, <<"yo">>, <<"sup">>, <<"hola">>}
             \/ (m # <<>> /\ m[1] = "hello")
     THEN "greet"
     ELSE "query"

\* llm_classify_intent_llama once llm.complete(prompt) has returned or raised;
\* out is [raised, text].
llm_classify_intent_llama(out) ==
  LET word == lower(strip(out.text))
  IN IF ~out.raised /\ Len(word) = 1 /\ word[1] \in INTENTS THEN word[1] ELSE "query"

needs_clarification(message) ==
  LET m == lower(message)
      q1 == /\ HasWord(m, "folio")
            /\ ~(Contains(m, <<" ", "active", " ">>) \/ Contains(m, <<" ", "all", " ">>))
      q2 == HasWord(m, "folio") /\ ~HasWord(m, "999-999-99-9")
      a1 == <<"Did you want only active folios or all?">>
      a2 == <<"Do you want me to remove reference folio 999-999-99-9 from results?">>
  IN IF q1 /\ q2 THEN a1 \o <<" ">> \o a2
     ELSE IF q1 THEN a1
     ELSE IF q2 THEN a2
     ELSE None

\* ------------------------------------------- the refiner's explanation

\* The end (exclusive) of the lazy capture (.*?)(?=\n\n|$) that starts at k.
CaptureEnd(s, k) ==
  FirstIdx({p \in k..(Len(s) + 1) :
              \/ p = Len(s) + 1
              \/ (p = Len(s) /\ s[p] = "\n")
              \/ (p < Len(s) /\ s[p] = "\n" /\ s[p + 1] = "\n")})

\* re.search of label(\s*)(.*?)(?=\n\n|$): the stripped capture after the
\* leftmost atom that ends with the label, or None.
LabelCapture(s, labels, skip) ==
  LET hits == {i \in 1..Len(s) : LowerAtom(s[i]) \in labels}
  IN IF hits = {} THEN None
     ELSE LET k == IF skip THEN SkipWs(s, FirstIdx(hits) + 1) ELSE FirstIdx(hits) + 1
          IN strip(SubSeq(s, k, CaptureEnd(s, k) - 1))

\* explanation_patterns, in order, with the atoms each can match.
EXPLANATION_PATTERNS ==
  << [labels |-> {"**explanation:**"}, skip |-> FALSE],
     [labels |-> {"explanation:", "brief explanation:", "query explanation:"}, skip |-> TRUE],
     [labels |-> {"brief explanation:"}, skip |-> TRUE],
     [labels |-> {"this query:", "the query:", "query explanation:"}, skip |-> TRUE] >>

\* The loop over explanation_patterns: the capture of the first that matches.
PatternExplanation(s) ==
  LET hit == {k \in 1..Len(EXPLANATION_PATTERNS) :
                LabelCapture(s, EXPLANATION_PATTERNS[k].labels,
                             EXPLANATION_PATTERNS[k].skip) # None}
  IN IF hit = {} THEN <<>>
     ELSE LabelCapture(s, EXPLANATION_PATTERNS[FirstIdx(hit)].labels,
                       EXPLANATION_PATTERNS[FirstIdx(hit)].skip)

\* The text after the second code fence, cut, when it is long enough.
TrailingExplanation(s) ==
  LET fences == {i \in 1..Len(s) : IsFenceStart(s[i])}
      later == {j \in fences : j > FirstIdx(fences)}
  IN IF fences = {} \/ later = {} THEN <<>>
     ELSE LET e == FirstIdx(later)
              rest == IF s[e] = "'''" THEN <<>> ELSE <<TrailingIdentifier(s[e])>>
              remaining_text == strip(rest \o From(s, e + 1))
          IN IF Len(remaining_text) > EXPLANATION_MIN
             THEN Prefix(remaining_text, EXPLANATION_CUT)
                    \o (IF Len(remaining_text) > EXPLANATION_CUT THEN <<"...">> ELSE <<>>)
             ELSE <<>>

\* validate_and_refine_query once llm.complete(validation_prompt) has returned
\* or raised: the pair (refined_query, refined_explanation).
validate_and_refine_query(generated_response, out) ==
  IF out.raised
  THEN [refined_query |-> extract_sql_query(generated_response), refined_explanation |-> <<>>]
  ELSE LET refined_response == strip(out.text)
       IN [refined_query |-> extract_sql_query(refined_response),
           refined_explanation |->
             IF PatternExplanation(refined_response) # <<>>
             THEN PatternExplanation(refined_response)
             ELSE TrailingExplanation(refined_response)]

\* ------------------------------------------------------------ fixed texts

ACCESS_DENIED == <<"ACCESS DENIED">>

GREET_REPLY ==
  <<"Hello! I'm here to generate SQL queries for your database. Describe the data you want and I'll create a query, or paste an error you saw and I'll fix it.">>

IRRELEVANT_NOTE ==
  <<"I can only assist with database SQL queries. Please describe the data you want and I'll build a query for you.">>

FEEDBACK_THANKS ==
  <<"Thanks. I recorded that error and will avoid the pattern next time. Ask again and I will generate a corrected query.">>

RECORDED_FEEDBACK == <<"Recorded feedback.">>

CLARIFY_SUFFIX == <<" (I'll proceed with defaults if not specified.)">>

DEFAULTS_NOTE == <<"\n", "DEFAULTS: active folios; exclude reference folio 999-999-99-9.">>

SCHEMA_NOTE ==
  <<"\n", "<!-- SCHEMA_INSTRUCTION --> IMPORTANT: Use ONLY the column names and table structures provided by the RAG system below. <!-- END_INSTRUCTION -->",
    "\n", "\n">>

\* The basic fallback response of the generation stage.
FALLBACK_RESPONSE ==
  <<"'''sql", "\n", "SELECT", " ", "*", " ", "FROM", " ", "your_table", " ", "WHERE", " ",
    "condition", " ", "=", " ", "'value'", ";", "\n", "'''", "\n", "\n",
    "**Explanation:**", "\n",
    "I encountered an error while processing your request. Please make sure the RAG index is properly built by running 'python SQL_App/rag_code.py' first. This is a fallback response.">>

\* The explanation used when validate_and_refine_query raises.
GENERIC_EXPLANATION ==
  <<"This SQL query retrieves data based on your specific requirements using the appropriate database tables and conditions.">>

\* MCPHandler.get_system_prompt()
MCP_SYSTEM_PROMPT ==
  <<"You are a precise SQL query generator. Generate EXACTLY what the user asks for.">>

IntentPrompt(message) ==
  <<"Classify the user message strictly into one of: greet | feedback | query | irrelevant.",
    "\n", "Message: ">> \o message \o <<"\n", "Answer with one word only.">>

ContextQuery(lessons, user_text) ==
  SCHEMA_NOTE
    \o (IF lessons # <<>>
        THEN <<"\n", "<!----- FEEDBACK LESSONS ----->", "\n">> \o lessons
               \o <<"\n", "<!----- END LESSONS ----->", "\n">>
        ELSE <<>>)
    \o user_text

DenyPrompt(context_query, validation_errors) ==
  context_query \o <<"\n", "\n", "ERROR: ">> \o validation_errors
    \o <<"\n", "Please fix the query above to use only valid column names from the schema.">>

SchemaPrompt(context_query, schema_err) ==
  context_query \o <<"\n", "\n", "ERROR: ">> \o schema_err
    \o <<"\n", "Regenerate using only schema-valid table.column references.">>

ConstraintPrompt(context_query, locked_tables) ==
  context_query
    \o <<"\n", "\n", "CRITICAL: Do not change tables. Use exactly these tables: ">>
    \o JoinComma(locked_tables)
    \o <<".", "\n", "Regenerate the SQL using the same user intent, keeping these base tables unchanged.">>

ValidationPrompt(user_question, generated_response, mcp_instructions) ==
  <<"You are a SQL query validator and refiner.", "\n", "USER QUESTION: ">> \o user_question
    \o <<"\n", "\n", "GENERATED RESPONSE: ">> \o generated_response
    \o <<"\n", "\n", "MCP INSTRUCTIONS:", "\n">> \o mcp_instructions
    \o <<"\n", "\n", "CRITICAL RULES: ... Format your response as: '''sql [corrected SQL query] ''' **Explanation:** [updated explanation]">>

\* ------------------------------------------------ inputs and their bounds

\* The number of POST /query requests of a behaviour.
MaxRequests == 1

\* The number of GET and DELETE /sessions/{session_id} requests of a behaviour.
MaxSessionOps == 1

\* The ids uuid4 can draw and clients can name.
SessionIds == {"s1", "s2"}

M_GREETING == <<"Hi">>
M_ERROR == <<"syntax", " ", "error", " ", "near", " ", "line", " ", "12">>
M_FOLIO == <<"list", " ", "folio", " ", "owners">>

Messages == {M_GREETING, M_ERROR, M_FOLIO}

\* What an external call does: it returns text, or raises with str(e) = text.
Returned(text) == [raised |-> FALSE, text |-> text]
Raised(text) == [raised |-> TRUE, text |-> text]

E_CONTEXT == <<"Requested", " ", "tokens", " ", "exceed", " ", "Context", " ", "Size">>
E_TIMEOUT == <<"Request", " ", "timed", " ", "out">>
\* str(e) of the exception raised when the validator client cannot be built.
E_SETUP == <<"Validator", " ", "client", " ", "not", " ", "built">>

\* Replies of the intent classifier.
IntentReplies ==
  {<<"greet">>, <<"feedback">>, <<"query">>, <<"irrelevant">>, <<" ", "Greet", "\n">>, <<"unsure">>}

IntentOutcomes == {Returned(t) : t \in IntentReplies} \cup {Raised(E_TIMEOUT)}

Sql(select, from) ==
  <<"'''sql", "\n", "SELECT", " ">> \o select \o <<" ">> \o from
    \o <<" ", "bills", " ", "WHERE", " ", "bill_year", " ", "=", " ", "2024", ";", "\n", "'''">>

G_GOOD == Sql(<<"amount">>, <<"FROM">>) \o <<"\n", "\n", "<bullet>", " ", "Tables", " ", "used">>
G_DENIED == Sql(<<"AP_AMOUNT">>, <<"FROM">>)
G_UNKNOWN == Sql(<<"bills", ".", "total">>, <<"FROM">>)
G_BOTH == Sql(<<"bills", ".", "AP_AMOUNT">>, <<"FROM">>)
G_PROSE == <<"I", " ", "need", " ", "more", " ", "detail">>

\* Replies of the RAG query engine.
GenTexts == {G_GOOD, G_DENIED, G_UNKNOWN, G_BOTH, G_PROSE}

GenOutcomes == {Returned(t) : t \in GenTexts} \cup {Raised(E_CONTEXT), Raised(E_TIMEOUT)}

\* Replies of the RAG query engine to a regeneration prompt.
RegenOutcomes == {Returned(G_GOOD), Returned(G_PROSE), Raised(E_CONTEXT), Raised(E_TIMEOUT)}

\* Replies to a correction prompt: a regenerated text may still fail both checks.
CorrectionOutcomes == RegenOutcomes \cup {Returned(G_BOTH)}

\* Replies of the minimal-retrieval engine.
FallbackOutcomes == {Returned(G_GOOD), Raised(E_CONTEXT)}

R_LABELLED == Sql(<<"amount">>, <<"FROM">>) \o <<"\n", "\n", "**Explanation:**", "\n", "Sums", " ", "the", " ", "bills">>
R_MIXED == Sql(<<"amount">>, <<"From">>) \o <<"\n", "\n", "Explanation:", " ", "<bullet>", " ", "Bills", " ", "of", " ", "2024">>
R_BARE == <<"SELECT", " ", "status", " ", "FROM", " ", "folio", ";">>
R_TRAILING == <<"SELECT", " ", "status", " ", "From">>

\* Replies of the refiner.
RefineTexts == {R_LABELLED, R_MIXED, R_BARE, R_TRAILING}

RefineOutcomes == {Returned(t) : t \in RefineTexts} \cup {Raised(E_TIMEOUT)}

\* ------------------------------------------------------------------ state

VARIABLES
  CHATBOT_SEALED,  \* the deployment seal flag
  env,             \* what startup finds: llama_index, rag_storage, api_key
  query_engine,    \* TRUE once the global query_engine is set
  index,           \* TRUE once the global index is loaded
  files,           \* chatbot_data: session id |-> the ChatSession in <id>.json
  ledger,          \* SQL_App/feedback_store.json
  pc,              \* where the handler of POST /query stands
  req,             \* the QueryRequest being handled (or handled last)
  session,         \* the handler's ChatSession object
  loc,             \* the handler's local variables
  calls,           \* the external calls issued for req, in order
  resp,            \* the last operation and its outcome
  pre,             \* files and ledger when the last operation started
  nreq,            \* POST /query requests so far
  nops,            \* GET and DELETE /sessions/{session_id} requests so far
  rag_dirs,        \* the three candidate rag_storage directories, in order
  health,          \* the last answer of GET /health
  fn,              \* the function called last on its own
  arg,             \* its argument
  ret,             \* what it returned
  napp,            \* the calls of functions on their own so far
  proc,            \* the server processes that run side by side: where each stands
  disk             \* the text of the one file those processes read and write

vars == <<CHATBOT_SEALED, env, query_engine, index, files, ledger, pc, req,
          session, loc, calls, resp, pre, nreq, nops, rag_dirs, health,
          fn, arg, ret, napp, proc, disk>>

NoFiles == [id \in {} |-> NoChatSession]

NoRequest == [message |-> <<>>, session_id |-> NoSession]

NoLocals ==
  [intent |-> "<None>", classifier_failed |-> FALSE, context_query |-> None,
   response_text |-> None, regenerated |-> <<>>,
   locked_tables |-> <<>>, sql_query |-> None, error |-> None,
   fallback_error |-> None, refining |-> FALSE, validation_error |-> None,
   refined_query |-> None, explanation |-> None, refined_explanation |-> None,
   cand |-> None]

Response(op, target, status, session_id, sql_query, explanation, detail) ==
  [op |-> op, target |-> target, status |-> status, session_id |-> session_id,
   sql_query |-> sql_query, explanation |-> explanation, detail |-> detail]

NoResponse == Response("<None>", NoSession, 0, NoSession, None, None, None)

\* A session persisted by an earlier run of the service.
OldSession ==
  ChatSession("s1", create_session_title(M_GREETING),
              <<ChatMessage("user", M_GREETING, None, None),
                ChatMessage("assistant", GREET_REPLY, None, None)>>)

OldFiles == save_chat_session(NoFiles, OldSession)

\* A ledger persisted by an earlier run: it is at the cap and holds the
\* lesson of M_ERROR.
OldLedger ==
  [exists |-> TRUE,
   lessons |-> <<FeedbackLesson(<<"unknown", " ", "column", " ", "error">>),
                 FeedbackLesson(M_ERROR),
                 FeedbackLesson(<<"error", " ", "at", " ", "line", " ", "3">>)>>]

Environments == [llama_index : BOOLEAN, rag_storage : BOOLEAN, api_key : BOOLEAN]

\* The files a persisted index consists of.
required_files == {"docstore.json", "index_store.json", "default__vector_store.json"}

\* A candidate directory that does not exist.
NoDirectory == [exists |-> FALSE, names |-> {}]

\* A candidate directory that exists, with the names of its files.
Directory(names) == [exists |-> TRUE, names |-> names]

\* The candidate directories when the index is persisted in the first one
\* (e.rag_storage), and when there is none.
StorageOf(e) ==
  IF e.rag_storage THEN <<Directory(required_files), NoDirectory, NoDirectory>>
  ELSE <<NoDirectory, NoDirectory, NoDirectory>>

NoHealth == [status |-> "<None>"]

\* No function is called on its own.
NoCall == fn = "<None>" /\ arg = None /\ ret = None /\ napp = 0

\* One server process: nothing runs beside the handler.
Processes == {"p1", "p2"}

OneProcess == proc = [p \in Processes |-> [pc |-> "<None>"]] /\ disk = <<>>

Init ==
  /\ CHATBOT_SEALED \in BOOLEAN
  /\ env \in Environments
  /\ query_engine = FALSE
  /\ index = FALSE
  /\ \E old \in {<<NoFiles, NoLedger>>, <<OldFiles, OldLedger>>} :
       files = old[1] /\ ledger = old[2]
  /\ pc = "boot"
  /\ req = NoRequest
  /\ session = NoChatSession
  /\ loc = NoLocals
  /\ calls = <<>>
  /\ resp = NoResponse
  /\ pre = [files |-> files, ledger |-> ledger]
  /\ nreq = 0
  /\ nops = 0
  /\ rag_dirs = StorageOf(env)
  /\ health = NoHealth
  /\ NoCall
  /\ OneProcess

\* The part of the state a handler works on.
Cur ==
  [pc |-> pc, req |-> req, session |-> session, loc |-> loc, calls |-> calls,
   resp |-> resp, files |-> files, ledger |-> ledger]

Become(h) ==
  /\ pc' = h.pc
  /\ req' = h.req
  /\ session' = h.session
  /\ loc' = h.loc
  /\ calls' = h.calls
  /\ resp' = h.resp
  /\ files' = h.files
  /\ ledger' = h.ledger

\* ---------------------------------------------------------------- startup

\* initialize_query_engine: what it sets, given what it finds.
initialize_query_engine(e) ==
  [index |-> e.llama_index /\ e.rag_storage,
   query_engine |-> e.llama_index /\ e.rag_storage /\ e.api_key]

\* startup_event
Startup ==
  /\ pc = "boot"
  /\ pc' = "idle"
  /\ index' = initialize_query_engine(env).index
  /\ query_engine' = initialize_query_engine(env).query_engine
  /\ UNCHANGED <<CHATBOT_SEALED, env, files, ledger, req, session, loc, calls, resp, pre, nreq,
                 nops, rag_dirs, health, fn, arg, ret, napp, proc, disk>>

\* ------------------------------------------------ POST /query: the handler
\* Each operator below takes the handler's state h (see Cur) and gives the
\* state in which the handler next waits for an external call, or has answered.

\* The handler answers: a QueryResponse (status 200) or an HTTP error.
Respond(h, status, session_id, sql_query, explanation, detail) ==
  [h EXCEPT !.pc = "idle",
            !.resp = Response("POST /query", h.req.session_id, status, session_id,
                              sql_query, explanation, detail)]

\* raise HTTPException(status_code=status, detail=detail) outside the try
HttpError(h, status, detail) == Respond(h, status, NoSession, None, None, detail)

\* An exception with str(e) = e raised inside the handler's try: the except
\* clause turns it into status 500.
OuterExcept(h, e) == HttpError(h, 500, <<"Error processing query: ">> \o e)

\* The handler issues an external call and waits for it at pc = next.
IssueCall(h, api, site, top_k, prompt, next) ==
  [h EXCEPT !.pc = next,
            !.calls = Append(@, [api |-> api, site |-> site, top_k |-> top_k,
                                 prompt |-> prompt])]

AnswerContent(refined_query, refined_explanation) ==
  <<"Here's the SQL query for your request:", "\n", "\n", "'''sql", "\n">> \o refined_query
    \o <<"\n", "'''", "\n", "\n", "**Explanation:**", "\n">> \o refined_explanation

\* The assistant message, the save and the QueryResponse of a query turn.
Finalize(h) ==
  LET q == h.loc.refined_query
      e == h.loc.refined_explanation
      s == AppendMessage(h.session, ChatMessage("assistant", AnswerContent(q, e), q, e))
  IN Respond([h EXCEPT !.session = s, !.files = save_chat_session(h.files, s)],
             200, s.session_id, q, e, None)

\* Faulty variant: the bullet is put before every explanation.
Bulleted_always(locked_tables, refined_explanation) ==
  <<"<bullet>", " ", "Tables locked:", " ">> \o JoinComma(locked_tables) \o <<"\n">>
    \o (IF Truthy(refined_explanation) THEN refined_explanation ELSE <<>>)

\* The "Tables locked" bullet put before the explanation.
Bulleted(locked_tables, refined_explanation) ==
  IF Truthy(refined_explanation) /\ Head(strip(refined_explanation) \o <<"">>) # "<bullet>"
  THEN <<"<bullet>", " ", "Tables locked:", " ">> \o JoinComma(locked_tables) \o <<"\n">>
         \o refined_explanation
  ELSE IF Truthy(refined_explanation) THEN refined_explanation ELSE <<>>

FinalizeLocked(h) ==
  Finalize([h EXCEPT !.loc.refined_explanation = Bulleted(h.loc.locked_tables, @)])

\* The locked tables that extract_tables does not find in refined_query.
MissingTables(locked_tables, refined_query) ==
  LET Absent(t) == t \notin Range(extract_tables(refined_query))
  IN SelectSeq(locked_tables, Absent)

\* Faulty variant: the regeneration is issued whenever tables are locked.
LockStage_always(h) ==
  LET refined_query == vertical_format_sql(h.loc.refined_query)
      h1 == [h EXCEPT !.loc.refined_query = refined_query]
  IN IF h.loc.locked_tables = <<>> THEN Finalize(h1)
     ELSE IssueCall(h1, "query", "lock", 3,
                    ConstraintPrompt(h.loc.context_query, h.loc.locked_tables), "lock")

\* After refinement: vertical formatting, then the table lock.
LockStage(h) ==
  LET refined_query == vertical_format_sql(h.loc.refined_query)
      h1 == [h EXCEPT !.loc.refined_query = refined_query]
  IN IF h.loc.locked_tables = <<>> THEN Finalize(h1)
     ELSE IF extract_tables_raises(refined_query)
     THEN OuterExcept(h1, <<"list index out of range">>)
     ELSE IF MissingTables(h.loc.locked_tables, refined_query) # <<>>
     THEN IssueCall(h1, "query", "lock", 3,
                    ConstraintPrompt(h.loc.context_query, h.loc.locked_tables), "lock")
     ELSE FinalizeLocked(h1)

\* Faulty variant: a raising lock regeneration is tried again.
AfterLockRegen_retry(h, out) ==
  LET cand == IF out.raised THEN None ELSE extract_sql_from_response(out.text)
  IN IF out.raised
     THEN IssueCall(h, "query", "lock", 3,
                    ConstraintPrompt(h.loc.context_query, h.loc.locked_tables), "lock")
     ELSE IF Truthy(cand)
     THEN FinalizeLocked([h EXCEPT !.loc.refined_query = vertical_format_sql(cand),
                                   !.loc.cand = cand])
     ELSE FinalizeLocked(h)

\* query_engine.query(constraint_prompt) has returned or raised.
AfterLockRegen(h, out) ==
  LET cand == IF out.raised THEN None ELSE extract_sql_from_response(out.text)
  IN IF Truthy(cand)
     THEN FinalizeLocked([h EXCEPT !.loc.refined_query = vertical_format_sql(cand),
                                   !.loc.cand = cand])
     ELSE FinalizeLocked(h)

\* llm.complete(validation_prompt) has returned or raised.
AfterRefine(h, out) ==
  LET r == validate_and_refine_query(h.loc.response_text, out)
  IN LockStage([h EXCEPT !.loc.refined_query = r.refined_query,
                         !.loc.explanation = r.refined_explanation,
                         !.loc.refined_explanation = r.refined_explanation,
                         !.loc.validation_error = IF out.raised THEN out.text ELSE None])

\* Faulty variant: the refinement call is left out.
SetupValidatorLlm_skipped(h, ok) ==
  LockStage([h EXCEPT !.loc.refined_query = extract_sql_query(h.loc.response_text),
                      !.loc.explanation = GENERIC_EXPLANATION,
                      !.loc.refined_explanation = GENERIC_EXPLANATION,
                      !.loc.validation_error = IF ok THEN None ELSE E_SETUP])

\* validate_and_refine_query is entered: setup_validator_llm builds the client
\* (ok), or raises, and the handler falls back to the unrefined SQL.
SetupValidatorLlm(h, ok) ==
  IF ok
  THEN IssueCall(h, "complete", "refine", 0,
                 ValidationPrompt(h.req.message, h.loc.response_text, MCP_SYSTEM_PROMPT),
                 "refine")
  ELSE LockStage([h EXCEPT !.loc.refined_query = extract_sql_query(h.loc.response_text),
                           !.loc.explanation = GENERIC_EXPLANATION,
                           !.loc.refined_explanation = GENERIC_EXPLANATION,
                           !.loc.validation_error = E_SETUP])

\* The generation stage is over with response_text: on to the refinement.
StartRefinement(h, response_text) ==
  [h EXCEPT !.pc = "validator", !.loc.response_text = response_text, !.loc.refining = TRUE]

\* minimal_engine.query(context_query) has returned or raised.
AfterFallback(h, out) ==
  IF out.raised
  THEN StartRefinement([h EXCEPT !.loc.fallback_error = out.text], FALLBACK_RESPONSE)
  ELSE StartRefinement(h, out.text)

\* Faulty variant: the minimal-retrieval fallback is tried for every exception.
OnQueryError_any(h, e) ==
  IssueCall([h EXCEPT !.loc.error = e], "query", "fallback", 1, h.loc.context_query,
            "gen_fallback")

\* The except clause of the generation stage, for an exception with str(e) = e.
OnQueryError(h, e) ==
  LET h1 == [h EXCEPT !.loc.error = e]
  IN IF Contains(lower(e), <<"context", " ", "size">>) /\ index
     THEN IssueCall(h1, "query", "fallback", 1, h.loc.context_query, "gen_fallback")
     ELSE StartRefinement(h1, FALLBACK_RESPONSE)

\* The hard schema check of the first attempt's SQL, after the deny-list check.
SchemaCheck(h, response_text) ==
  LET schema_err == check_sql_against_schema(h.loc.sql_query)
  IN IF schema_err # None
     THEN IssueCall([h EXCEPT !.loc.response_text = response_text], "query", "schema", 3,
                    SchemaPrompt(h.loc.context_query, schema_err), "gen_schema")
     ELSE StartRefinement(h, response_text)

\* Faulty variant: the response the schema check started from is kept.
AfterSchemaRegen_kept(h, out) ==
  IF out.raised THEN OnQueryError(h, out.text)
  ELSE StartRefinement([h EXCEPT !.loc.regenerated = Append(@, out.text)],
                       h.loc.response_text)

\* query_engine.query(error_prompt) of the schema check has returned or raised.
AfterSchemaRegen(h, out) ==
  IF out.raised THEN OnQueryError(h, out.text)
  ELSE StartRefinement([h EXCEPT !.loc.regenerated = Append(@, out.text)], out.text)

\* Faulty variant: the regenerated text is put through the deny-list check again.
AfterDenyRegen_recheck(h, out) ==
  IF out.raised THEN OnQueryError(h, out.text)
  ELSE IF validate_schema_adherence(extract_sql_from_response(out.text)) # None
  THEN IssueCall([h EXCEPT !.loc.response_text = out.text], "query", "deny", 3,
                 DenyPrompt(h.loc.context_query,
                            validate_schema_adherence(extract_sql_from_response(out.text))),
                 "gen_deny")
  ELSE SchemaCheck([h EXCEPT !.loc.regenerated = Append(@, out.text)], out.text)

\* query_engine.query(error_prompt) of the deny-list check has returned or raised.
AfterDenyRegen(h, out) ==
  IF out.raised THEN OnQueryError(h, out.text)
  ELSE SchemaCheck([h EXCEPT !.loc.regenerated = Append(@, out.text)], out.text)

\* The tables of the first attempt that are in the schema.
LockedTables(init_sql) ==
  IF ~Truthy(init_sql) \/ extract_tables_raises(init_sql) THEN <<>>
  ELSE LET Known(t) == t \in DOMAIN SCHEMA_INDEX
       IN SelectSeq(extract_tables(init_sql), Known)

\* query_engine.query(context_query) has returned or raised.
AfterInitial(h, out) ==
  IF out.raised THEN OnQueryError(h, out.text)
  ELSE LET sql_query == extract_sql_from_response(out.text)
           h1 == [h EXCEPT !.loc.response_text = out.text,
                           !.loc.locked_tables = LockedTables(sql_query),
                           !.loc.sql_query = sql_query]
       IN IF ~Truthy(sql_query) THEN StartRefinement(h1, out.text)
          ELSE IF validate_schema_adherence(sql_query) # None
          THEN IssueCall(h1, "query", "deny", 3,
                         DenyPrompt(h.loc.context_query, validate_schema_adherence(sql_query)),
                         "gen_deny")
          ELSE SchemaCheck(h1, out.text)

\* Faulty variant: the clarification is the answer and nothing is generated.
StartGeneration_blocking(h) ==
  LET ask == needs_clarification(h.req.message)
      context_query == ContextQuery(load_feedback_lessons(h.ledger), h.req.message)
  IN IF ask # None
     THEN LET s == AppendMessage(h.session,
                                 ChatMessage("assistant", ask \o CLARIFY_SUFFIX, None, None))
          IN Respond([h EXCEPT !.session = s, !.files = save_chat_session(h.files, s)],
                     200, s.session_id, <<>>, ask \o CLARIFY_SUFFIX, None)
     ELSE IssueCall([h EXCEPT !.loc.context_query = context_query],
                    "query", "initial", 3, context_query, "gen_initial")

\* The query intent: the clarification gate, the context query and the
\* first call of the RAG engine.
StartGeneration(h) ==
  LET ask == needs_clarification(h.req.message)
      s == IF ask # None
           THEN AppendMessage(h.session,
                              ChatMessage("assistant", ask \o CLARIFY_SUFFIX, None, None))
           ELSE h.session
      user_text == IF ask # None THEN h.req.message \o DEFAULTS_NOTE ELSE h.req.message
      context_query == ContextQuery(load_feedback_lessons(h.ledger), user_text)
  IN IssueCall([h EXCEPT !.session = s, !.loc.context_query = context_query],
               "query", "initial", 3, context_query, "gen_initial")

\* Faulty variant: the reply carries SQL fields.
ChatTurn_with_fields(h, content, explanation) ==
  LET s == AppendMessage(h.session, ChatMessage("assistant", content, <<>>, explanation))
  IN Respond([h EXCEPT !.session = s, !.files = save_chat_session(h.files, s)],
             200, s.session_id, <<>>, explanation, None)

\* A turn that is not a query: the reply is appended, the session saved.
ChatTurn(h, content, explanation) ==
  LET s == AppendMessage(h.session, ChatMessage("assistant", content, None, None))
  IN Respond([h EXCEPT !.session = s, !.files = save_chat_session(h.files, s)],
             200, s.session_id, <<>>, explanation, None)

\* The branches on intent.
HandleIntent(h, intent) ==
  LET h1 == [h EXCEPT !.loc.intent = intent]
  IN CASE intent = "greet" -> ChatTurn(h1, GREET_REPLY, GREET_REPLY)
       [] intent = "irrelevant" -> ChatTurn(h1, IRRELEVANT_NOTE, IRRELEVANT_NOTE)
       [] intent = "feedback" ->
            ChatTurn([h1 EXCEPT !.ledger = append_feedback_lesson(@, FeedbackLesson(h.req.message))],
                     FEEDBACK_THANKS, RECORDED_FEEDBACK)
       [] OTHER -> StartGeneration(h1)

\* llm.complete(prompt) of the classifier has returned or raised.
AfterClassify(h, out) ==
  LET intent == llm_classify_intent_llama(out)
      word == lower(strip(out.text))
      h1 == [h EXCEPT !.loc.classifier_failed = out.raised \/ word \notin {<<l>> : l \in INTENTS}]
  IN HandleIntent(h1, IF intent \notin INTENTS THEN classify_intent(h.req.message) ELSE intent)

\* Faulty variant: the session is saved as soon as the user message is added.
OpenSession_saving(h, uuid) ==
  LET loaded == load_chat_session(h.files, h.req.session_id)
      s == IF h.req.session_id # NoSession THEN loaded
           ELSE ChatSession(uuid, create_session_title(h.req.message), <<>>)
      opened == AppendMessage(s, ChatMessage("user", h.req.message, None, None))
  IN IF h.req.session_id # NoSession /\ loaded = NoChatSession
     THEN OuterExcept(h, <<"404: Session not found">>)
     ELSE IssueCall([h EXCEPT !.session = opened,
                              !.files = save_chat_session(h.files, opened)],
                    "complete", "intent", 0, IntentPrompt(h.req.message), "classify")

\* Get or create the session, add the user message, start the classifier.
OpenSession(h, uuid) ==
  LET loaded == load_chat_session(h.files, h.req.session_id)
      s == IF h.req.session_id # NoSession THEN loaded
           ELSE ChatSession(uuid, create_session_title(h.req.message), <<>>)
  IN IF h.req.session_id # NoSession /\ loaded = NoChatSession
     THEN OuterExcept(h, <<"404: Session not found">>)
     ELSE IssueCall([h EXCEPT !.session =
                        AppendMessage(s, ChatMessage("user", h.req.message, None, None))],
                    "complete", "intent", 0, IntentPrompt(h.req.message), "classify")

\* Faulty variant: the seal does not stop the pipeline.
SealedResponse_open(h, uuid) == OpenSession(h, uuid)

\* The sealed answer.
SealedResponse(h, uuid) ==
  Respond(h, 200, IF h.req.session_id # NoSession THEN h.req.session_id ELSE uuid,
          <<>>, ACCESS_DENIED, None)

\* process_query up to its first external call; uuid is what uuid4 draws.
process_query(h, uuid) ==
  IF CHATBOT_SEALED THEN SealedResponse(h, uuid)
  ELSE IF ~query_engine THEN HttpError(h, 500, <<"Query engine not initialized">>)
  ELSE OpenSession(h, uuid)

\* ---------------------------------------------------------------- actions

Snapshot == pre' = [files |-> files, ledger |-> ledger]

Static ==
  UNCHANGED <<CHATBOT_SEALED, env, query_engine, index, rag_dirs, health, fn, arg, ret, napp,
              proc, disk>>

\* uuid4 draws an id that names no file; a request that names a session
\* draws none.
FreshIds(session_id) ==
  IF session_id = NoSession THEN SessionIds \ DOMAIN files ELSE {NoSession}

\* POST /query arrives.
PostQuery(message, session_id, uuid) ==
  /\ pc = "idle"
  /\ nreq < MaxRequests
  /\ nreq' = nreq + 1
  /\ Snapshot
  /\ Become(process_query([Cur EXCEPT !.req = [message |-> message, session_id |-> session_id],
                                      !.session = NoChatSession,
                                      !.loc = NoLocals,
                                      !.calls = <<>>],
                          uuid))
  /\ UNCHANGED nops
  /\ Static

\* The handler goes on when the call it waits for at pc = at returns or raises.
Continue(at, next) ==
  /\ pc = at
  /\ Become(next)
  /\ UNCHANGED <<pre, nreq, nops>>
  /\ Static

ClassifyReturn(out) == Continue("classify", AfterClassify(Cur, out))

InitialReturn(out) == Continue("gen_initial", AfterInitial(Cur, out))

DenyRegenReturn(out) == Continue("gen_deny", AfterDenyRegen(Cur, out))

SchemaRegenReturn(out) == Continue("gen_schema", AfterSchemaRegen(Cur, out))

FallbackReturn(out) == Continue("gen_fallback", AfterFallback(Cur, out))

SetupValidator(ok) == Continue("validator", SetupValidatorLlm(Cur, ok))

RefineReturn(out) == Continue("refine", AfterRefine(Cur, out))

LockRegenReturn(out) == Continue("lock", AfterLockRegen(Cur, out))

\* GET /sessions/{session_id}
get_session(fs, session_id) ==
  IF load_chat_session(fs, session_id) = NoChatSession
  THEN Response("GET /sessions/{session_id}", session_id, 404, NoSession, None, None,
                <<"Session not found">>)
  ELSE Response("GET /sessions/{session_id}", session_id, 200, session_id, None, None, None)

GetSession(session_id) ==
  /\ pc = "idle"
  /\ nops < MaxSessionOps
  /\ nops' = nops + 1
  /\ Snapshot
  /\ resp' = get_session(files, session_id)
  /\ UNCHANGED <<files, ledger, pc, req, session, loc, calls, nreq>>
  /\ Static

\* DELETE /sessions/{session_id}: the files and the response afterwards
delete_session(fs, session_id) ==
  IF session_id \in DOMAIN fs
  THEN [files |-> [id \in DOMAIN fs \ {session_id} |-> fs[id]],
        resp |-> Response("DELETE /sessions/{session_id}", session_id, 200, NoSession,
                          None, None, <<"Session deleted successfully">>)]
  ELSE [files |-> fs,
        resp |-> Response("DELETE /sessions/{session_id}", session_id, 404, NoSession,
                          None, None, <<"Session not found">>)]

DeleteSession(session_id) ==
  /\ pc = "idle"
  /\ nops < MaxSessionOps
  /\ nops' = nops + 1
  /\ Snapshot
  /\ files' = delete_session(files, session_id).files
  /\ resp' = delete_session(files, session_id).resp
  /\ UNCHANGED <<ledger, pc, req, session, loc, calls, nreq>>
  /\ Static

Next ==
  \/ Startup
  \/ \E m \in Messages, sid \in SessionIds \cup {NoSession} :
       \E u \in FreshIds(sid) : PostQuery(m, sid, u)
  \/ \E out \in IntentOutcomes : ClassifyReturn(out)
  \/ \E out \in GenOutcomes : InitialReturn(out)
  \/ \E out \in CorrectionOutcomes : DenyRegenReturn(out)
  \/ \E out \in CorrectionOutcomes : SchemaRegenReturn(out)
  \/ \E out \in FallbackOutcomes : FallbackReturn(out)
  \/ \E ok \in BOOLEAN : SetupValidator(ok)
  \/ \E out \in RefineOutcomes : RefineReturn(out)
  \/ \E out \in RegenOutcomes : LockRegenReturn(out)
  \/ \E sid \in SessionIds : GetSession(sid)
  \/ \E sid \in SessionIds : DeleteSession(sid)

Spec == Init /\ [][Next]_vars

\* ------------------------------------------------- the ledger on its own
\* append_feedback_lesson called with arbitrary lessons, from an empty or
\* absent ledger file.

EmptyLedger == [exists |-> TRUE, lessons |-> <<>>]

LedgerLessons ==
  {<<>>, FeedbackLesson(M_ERROR), FeedbackLesson(M_GREETING), FeedbackLesson(M_FOLIO),
   <<"free", " ", "text">>}

LedgerInit ==
  /\ CHATBOT_SEALED = FALSE
  /\ env = [llama_index |-> TRUE, rag_storage |-> TRUE, api_key |-> TRUE]
  /\ query_engine = TRUE
  /\ index = TRUE
  /\ files = NoFiles
  /\ ledger \in {NoLedger, EmptyLedger}
  /\ pc = "idle"
  /\ req = NoRequest
  /\ session = NoChatSession
  /\ loc = NoLocals
  /\ calls = <<>>
  /\ resp = NoResponse
  /\ pre = [files |-> files, ledger |-> ledger]
  /\ nreq = 0
  /\ nops = 0
  /\ rag_dirs = StorageOf(env)
  /\ health = NoHealth
  /\ NoCall
  /\ OneProcess

AppendFeedbackLesson(lesson) ==
  /\ Snapshot
  /\ ledger' = append_feedback_lesson(ledger, lesson)
  /\ resp' = Response("append_feedback_lesson", NoSession, 0, NoSession, None, None, lesson)
  /\ UNCHANGED <<files, pc, req, session, loc, calls, nreq, nops>>
  /\ Static

LedgerNext == \E lesson \in LedgerLessons : AppendFeedbackLesson(lesson)

LedgerSpec == LedgerInit /\ [][LedgerNext]_vars

\* ------------------------------------------------- GET /health on its own
\* health_check over every content of the three candidate directories.

\* Path(existing_rag_path) / file
PathJoin(dir, file) == <<dir, file>>

\* bool() of a pathlib.Path: the class defines neither __bool__ nor __len__,
\* so every path object is true.
PathBool(path) == TRUE

\* The file is in the directory (Path.exists() of the joined path).
PathExists(dirs, path) == dirs[path[1]].exists /\ path[2] \in dirs[path[1]].names

\* GET /health: the answer, given the directories, the engine and the
\* environment.
health_check(dirs, qe, e) ==
  LET existing == {i \in 1..Len(dirs) : dirs[i].exists}
      existing_rag_path == IF existing = {} THEN 0 ELSE FirstIdx(existing)
      rag_files_exist ==
        IF existing_rag_path # 0
        THEN \A file \in required_files : PathBool(PathJoin(existing_rag_path, file))
        ELSE FALSE
  IN [status |-> "healthy",
      llama_index_available |-> e.llama_index,
      query_engine_initialized |-> qe,
      api_key_present |-> e.api_key,
      rag_storage_path |-> existing_rag_path,
      rag_files_exist |-> rag_files_exist,
      deployment_ready |-> qe /\ e.api_key /\ rag_files_exist]

\* The first candidate directory that exists holds the whole index.
IndexPersisted(dirs) ==
  \E i \in 1..Len(dirs) :
    /\ dirs[i].exists
    /\ \A j \in 1..(i - 1) : ~dirs[j].exists
    /\ \A file \in required_files : PathExists(dirs, PathJoin(i, file))

\* Every content of the candidate directories; the index loads at startup
\* (env.rag_storage) only from a directory that holds all of its files.
HealthInit ==
  /\ CHATBOT_SEALED = FALSE
  /\ env \in Environments
  /\ rag_dirs \in [1..3 -> {NoDirectory} \cup {Directory(names) : names \in SUBSET required_files}]
  /\ env.rag_storage => IndexPersisted(rag_dirs)
  /\ query_engine = FALSE
  /\ index = FALSE
  /\ files = NoFiles
  /\ ledger = NoLedger
  /\ pc = "boot"
  /\ req = NoRequest
  /\ session = NoChatSession
  /\ loc = NoLocals
  /\ calls = <<>>
  /\ resp = NoResponse
  /\ pre = [files |-> files, ledger |-> ledger]
  /\ nreq = 0
  /\ nops = 0
  /\ health = NoHealth
  /\ NoCall
  /\ OneProcess

HealthCheck ==
  /\ pc = "idle"
  /\ health' = health_check(rag_dirs, query_engine, env)
  /\ UNCHANGED <<CHATBOT_SEALED, env, query_engine, index, files, ledger, pc, req, session,
                 loc, calls, resp, pre, nreq, nops, rag_dirs, fn, arg, ret, napp, proc, disk>>

HealthNext == Startup \/ HealthCheck

HealthSpec == HealthInit /\ [][HealthNext]_vars

\* ------------------------------------------- the pure functions on their own
\* Each function is called on a text in hand (ret), and may be called again
\* on what it returned.

MaxApplications == 2

\* Nothing but the text in hand exists.
FunctionInit(inputs) ==
  /\ CHATBOT_SEALED = FALSE
  /\ env = [llama_index |-> TRUE, rag_storage |-> TRUE, api_key |-> TRUE]
  /\ query_engine = TRUE
  /\ index = TRUE
  /\ files \in {NoFiles, OldFiles}
  /\ ledger = NoLedger
  /\ pc = "idle"
  /\ req = NoRequest
  /\ session = NoChatSession
  /\ loc = NoLocals
  /\ calls = <<>>
  /\ resp = NoResponse
  /\ pre = [files |-> files, ledger |-> ledger]
  /\ nreq = 0
  /\ nops = 0
  /\ rag_dirs = StorageOf(env)
  /\ health = NoHealth
  /\ fn = "<None>"
  /\ arg = None
  /\ ret \in inputs
  /\ napp = 0
  /\ OneProcess

\* name(input) is called and returns value.
CallOn(name, input, value) ==
  /\ napp < MaxApplications
  /\ napp' = napp + 1
  /\ fn' = name
  /\ arg' = input
  /\ ret' = value
  /\ UNCHANGED <<CHATBOT_SEALED, env, query_engine, index, files, ledger, pc, req, session,
                 loc, calls, resp, pre, nreq, nops, rag_dirs, health, proc, disk>>

\* name(ret) is called and returns value.
Call(name, value) == CallOn(name, ret, value)

\* SQL texts over clause keywords in lower and upper case, AND conditions,
\* blanks and newlines.
FormatConditions ==
  {<<>>} \cup
  {<<sep, wh, " ", "amount", " ", "=", " ", "12">> \o more :
     sep \in WS, wh \in {"where", "WHERE"},
     more \in {<<>>} \cup {<<sep2, a, " ", "status", " ", "=", " ", "12">> :
                             sep2 \in WS, a \in {"and", "AND"}}}

FormatInputs ==
  {<<sel, " ", "amount", sep, frm, " ", "bills">> \o cond \o semi :
     sel \in {"select", "SELECT"}, sep \in WS, frm \in {"from", "FROM"},
     cond \in FormatConditions, semi \in {<<>>, <<";">>}}

FormatInit == FunctionInit(FormatInputs)

VerticalFormatSql == Call("vertical_format_sql", vertical_format_sql(ret))

FormatNext == VerticalFormatSql

FormatSpec == FormatInit /\ [][FormatNext]_vars

\* Statements a reply may hold: one statement with or without its semicolon,
\* two statements, or no statement at all.
ExtractStatements ==
  {<<sel, " ", "amount", " ", "FROM", " ", "bills">> \o rest :
     sel \in {"SELECT", "select"},
     rest \in {<<>>, <<";">>,
               <<";", " ", "SELECT", " ", "status", " ", "FROM", " ", "folio", ";">>}}
  \cup {G_PROSE}

\* Replies: a statement in a fenced block or bare, with or without prose
\* around it, or a fenced block after a bare statement.
ExtractInputs ==
  {open \o <<"\n">> \o stmt \o <<"\n", "'''">> \o trail :
     open \in {<<"'''sql">>, <<"'''SQL">>, <<"'''">>}, stmt \in ExtractStatements,
     trail \in {<<>>, <<"\n", "\n", "Sums", " ", "the", " ", "bills">>}}
  \cup
  {lead \o stmt \o trail :
     lead \in {<<>>, <<"Here", " ">>}, stmt \in ExtractStatements,
     trail \in {<<>>, <<"\n">>}}
  \cup
  {<<"SELECT", " ", "status", " ", "FROM", " ", "folio", ";", "\n">>
     \o open \o <<"\n">> \o stmt \o <<"\n", "'''">> :
     open \in {<<"'''sql">>, <<"'''">>}, stmt \in ExtractStatements}

ExtractInit == FunctionInit(ExtractInputs)

\* extract_sql_from_response of a str (re.findall raises on None).
ExtractSqlFromResponse ==
  /\ ret # None
  /\ Call("extract_sql_from_response", extract_sql_from_response(ret))

ExtractSqlQuery ==
  /\ ret # None
  /\ Call("extract_sql_query", extract_sql_query(ret))

ExtractNext == ExtractSqlFromResponse \/ ExtractSqlQuery

ExtractSpec == ExtractInit /\ [][ExtractNext]_vars

\* Column references: a table of the index in either case, or an alias; a
\* column of that table, of the other table, or of none; blanks around the
\* dot or not; and a bare column.
SchemaReferences ==
  {<<t>> \o dot \o <<c>> :
     t \in {"bills", "Bills", "folio", "b"},
     dot \in {<<".">>, <<" ", ".", " ">>},
     c \in {"amount", "BILL_YEAR", "status", "total"}}
  \cup {<<"amount">>}

\* SQL texts with one or two column references.
SchemaInputs ==
  {<<"SELECT", " ">> \o r1 \o r2 \o <<" ", "FROM", " ", "bills", ";">> :
     r1 \in SchemaReferences,
     r2 \in {<<>>} \cup {<<",", " ">> \o r : r \in SchemaReferences}}

SchemaInit == FunctionInit(SchemaInputs)

\* check_sql_against_schema of a SQL text.
CheckSqlAgainstSchema ==
  /\ fn = "<None>"
  /\ Call("check_sql_against_schema", check_sql_against_schema(ret))

SchemaNext == CheckSqlAgainstSchema

SchemaSpec == SchemaInit /\ [][SchemaNext]_vars

\* Messages: a greeting word or another word first, in either case, with or
\* without blanks around, followed by up to two more words.
IntentWords ==
  {<<>>, <<" ", "there">>, <<" ", "syntax">>, <<" ", "Error">>, <<" ", "errors">>,
   <<" ", "line", " ", "12">>, <<" ", "online">>, <<" ", "column">>, <<" ", "folio">>}

IntentInputs ==
  {lead \o <<first>> \o w1 \o w2 \o trail :
     lead \in {<<>>, <<" ">>},
     first \in {"Hi", "hi", "Hello", "hello", "hey", "sup", "list", "error"},
     w1 \in IntentWords, w2 \in IntentWords,
     trail \in {<<>>, <<"\n">>}}

IntentInit == FunctionInit(IntentInputs)

\* classify_intent of the message in hand, the first time or once more.
ClassifyIntent ==
  LET message == IF fn = "<None>" THEN ret ELSE arg
  IN CallOn("classify_intent", message, <<classify_intent(message)>>)

IntentNext == ClassifyIntent

IntentSpec == IntentInit /\ [][IntentNext]_vars

\* --------------------------------------------- MCPHandler(config_file) on its own
\* src/mcp_handler.py; JSON values are records with their kind.

JStr(text) == [kind |-> "str", text |-> text]
JNum == [kind |-> "num"]
JNull == [kind |-> "null"]
JList(items) == [kind |-> "list", items |-> items]
JObject(fields) == [kind |-> "object", fields |-> fields]

\* A key that the object does not hold.
NoKey == [kind |-> "<absent>"]

\* The object with the keys whose value is given.
ObjectOf(pairs) ==
  JObject([k \in {p[1] : p \in {q \in pairs : q[2] # NoKey}} |->
             (CHOOSE p \in pairs : p[1] = k)[2]])

\* The rule file: missing, not parseable as JSON, or parsed to a value.
MissingFile == [state |-> "missing", value |-> JNull]
InvalidJson == [state |-> "unparseable", value |-> JNull]
JsonFile(value) == [state |-> "parsed", value |-> value]

\* _get_default_config
get_default_config ==
  ObjectOf({<<"system_prompt",
              JStr("You are a precise SQL query generator. Generate EXACTLY what the user asks for.")>>,
            <<"core_rules",
              JList(<<"ONLY implement what is explicitly requested",
                      "DO NOT add extra conditions unless specifically asked",
                      "ALWAYS start queries with SELECT",
                      "Choose the SIMPLEST approach when multiple options exist">>)>>})

\* _load_config: FileNotFoundError and JSONDecodeError give the defaults; any
\* JSON value that parses is returned as it is.
load_config(file) ==
  IF file.state \in {"missing", "unparseable"} THEN get_default_config ELSE file.value

\* The keys of the rule sections of _build_system_prompt, in order, with
\* their headings.
RULE_SECTIONS ==
  << <<"core_rules", "CORE RULES:">>,
     <<"query_structure_rules", "QUERY STRUCTURE RULES:">>,
     <<"condition_rules", "CONDITION RULES:">>,
     <<"table_specific_rules", "TABLE-SPECIFIC RULES:">>,
     <<"output_format", "OUTPUT FORMAT:">>,
     <<"error_handling", "ERROR HANDLING:">> >>

\* One prompt part per rule, each after the "\n" of the join: the bullet and
\* the rule.
RECURSIVE RuleParts(_)
RuleParts(items) ==
  IF items = <<>> THEN <<>>
  ELSE <<"\n", "<bullet>", " ", Head(items)>> \o RuleParts(Tail(items))

\* "for rule in config[key]" raises for a number and for null; `"sql_query" in
\* output_format` does so too.
SectionRaises(key, value) == value.kind \in {"num", "null"}

\* The prompt parts of one section whose key the config holds, each after the
\* "\n" of the join: the heading (which starts with "\n"), then the rules of a
\* list, or the two entries of an output_format object.
SectionParts(key, heading, value) ==
  <<"\n", "\n", heading>> \o
  (IF key = "output_format"
   THEN CASE value.kind = "object" ->
               (IF "sql_query" \in DOMAIN value.fields
                THEN <<"\n", "<bullet>", " ", value.fields["sql_query"].text>> ELSE <<>>)
               \o (IF "explanation" \in DOMAIN value.fields
                   THEN <<"\n", "<bullet>", " ", value.fields["explanation"].text>> ELSE <<>>)
          [] value.kind = "list" -> <<>>
   ELSE CASE value.kind = "list" -> RuleParts(value.items))

\* _build_system_prompt from section k on: [raised, text].
RECURSIVE BuildSections(_, _)
BuildSections(config, k) ==
  IF k > Len(RULE_SECTIONS) THEN [raised |-> FALSE, text |-> <<>>]
  ELSE LET key == RULE_SECTIONS[k][1]
           rest == BuildSections(config, k + 1)
       IN IF key \notin DOMAIN config.fields THEN rest
          ELSE IF SectionRaises(key, config.fields[key])
          THEN [raised |-> TRUE, text |-> <<"TypeError">>]
          ELSE IF rest.raised THEN rest
          ELSE [raised |-> FALSE,
                text |-> SectionParts(key, RULE_SECTIONS[k][2], config.fields[key])
                           \o rest.text]

\* _build_system_prompt: config.get raises on a value that is no object, and
\* "\n".join raises on a system_prompt that is no string.
build_system_prompt(config) ==
  IF config.kind # "object" THEN [raised |-> TRUE, text |-> <<"AttributeError">>]
  ELSE LET first == IF "system_prompt" \in DOMAIN config.fields
                    THEN config.fields["system_prompt"]
                    ELSE JStr("You are a precise SQL query generator.")
           sections == BuildSections(config, 1)
       IN IF sections.raised THEN sections
          ELSE IF first.kind # "str" THEN [raised |-> TRUE, text |-> <<"TypeError">>]
          ELSE [raised |-> FALSE, text |-> <<first.text>> \o sections.text]

\* MCPHandler.__init__: the handler built, or the exception raised.
MCPHandler(file) ==
  LET config == load_config(file)
      built == build_system_prompt(config)
  IN IF built.raised
     THEN [raised |-> TRUE, config |-> JNull, system_prompt |-> built.text]
     ELSE [raised |-> FALSE, config |-> config, system_prompt |-> built.text]

\* Values under the rule keys: none, a list of rules, or a number.
RuleValues == {NoKey, JList(<<"Use bills for amounts">>), JNum}

\* Rule files: missing, unparseable, an object of rule lists, an object with
\* a value of another kind, and values that are no object.
RuleFiles ==
  {MissingFile, InvalidJson, JsonFile(JNull), JsonFile(JNum), JsonFile(JStr("rules")),
   JsonFile(JList(<<"Use bills for amounts">>))}
  \cup
  {JsonFile(ObjectOf({<<"system_prompt", sp>>, <<"core_rules", cr>>,
                      <<"condition_rules", cd>>, <<"output_format", fmt>>,
                      <<"error_handling", eh>>})) :
     sp \in {NoKey, JStr("Generate SQL."), JNum},
     cr \in RuleValues, cd \in RuleValues, eh \in {NoKey, JNull},
     fmt \in {NoKey, JNum,
              ObjectOf({<<"sql_query", JStr("SQL first")>>, <<"explanation", NoKey>>})}}

McpInit == FunctionInit(RuleFiles)

\* MCPHandler(config_file) is constructed on the rule file in hand.
ConstructMCPHandler ==
  /\ fn = "<None>"
  /\ Call("MCPHandler", MCPHandler(ret))

McpNext == ConstructMCPHandler

McpSpec == McpInit /\ [][McpNext]_vars

\* ------------------------------------- two processes on one session file
\* A second server process handles POST /query on the same session id.  The
\* file's text is a sequence of units: an opening unit with the session's
\* header, one unit for each message, a closing unit.

Unit(kind, value) == [unit |-> kind, value |-> value]

\* json.dump(session.dict(), f): the text written for a session
SessionJson(s) ==
  <<Unit("{", [session_id |-> s.session_id, title |-> s.title])>>
    \o [i \in 1..Len(s.messages) |-> Unit("message", s.messages[i])]
    \o <<Unit("}", [session_id |-> s.session_id])>>

\* json.load(f) succeeds on a text that is one whole document.
IsSessionJson(text) ==
  /\ Len(text) >= 2
  /\ text[1].unit = "{"
  /\ text[Len(text)].unit = "}"
  /\ \A i \in 2..(Len(text) - 1) : text[i].unit = "message"

\* load_chat_session on the text of an existing file: the session, or None
\* when json.load raises.
LoadSessionJson(text) ==
  IF IsSessionJson(text)
  THEN ChatSession(text[1].value.session_id, text[1].value.title,
                   [i \in 1..(Len(text) - 2) |-> text[i + 1].value])
  ELSE NoChatSession

\* open(file, 'w') leaves the file empty.
Truncated == <<>>

\* The file after a process that opened it with 'w' writes text from its own
\* offset 0 and closes: the text, then what another writer had put beyond it.
WriteFromStart(content, text) == text \o SubSeq(content, Len(text) + 1, Len(content))

\* What the handler adds after the user message, by kind of turn.
RaceTurns ==
  {[message |-> M_GREETING,
    replies |-> <<ChatMessage("assistant", GREET_REPLY, None, None)>>],
   [message |-> M_ERROR,
    replies |-> <<ChatMessage("assistant", FEEDBACK_THANKS, None, None)>>],
   [message |-> M_FOLIO,
    replies |-> <<ChatMessage("assistant", needs_clarification(M_FOLIO) \o CLARIFY_SUFFIX,
                              None, None),
                  ChatMessage("assistant",
                              AnswerContent(vertical_format_sql(R_BARE), <<>>),
                              vertical_format_sql(R_BARE), <<>>)>>]}

Waiting == [pc |-> "start", loaded |-> NoChatSession, session |-> NoChatSession, order |-> 0]

\* The rest of the state stands still while the processes race.
OneHandler ==
  UNCHANGED <<CHATBOT_SEALED, env, query_engine, index, files, ledger, pc, req, session, loc,
              calls, resp, pre, nreq, nops, rag_dirs, health, fn, arg, ret, napp>>

RaceInit ==
  /\ CHATBOT_SEALED = FALSE
  /\ env = [llama_index |-> TRUE, rag_storage |-> TRUE, api_key |-> TRUE]
  /\ query_engine = TRUE
  /\ index = TRUE
  /\ files = OldFiles
  /\ ledger = NoLedger
  /\ pc = "idle"
  /\ req = NoRequest
  /\ session = NoChatSession
  /\ loc = NoLocals
  /\ calls = <<>>
  /\ resp = NoResponse
  /\ pre = [files |-> files, ledger |-> ledger]
  /\ nreq = 0
  /\ nops = 0
  /\ rag_dirs = StorageOf(env)
  /\ health = NoHealth
  /\ NoCall
  /\ proc = [p \in Processes |-> Waiting]
  /\ disk = SessionJson(OldSession)

\* Process p loads the session and adds the user message; a text that does
\* not load ends the request with an error.
RaceLoad(p, turn) ==
  /\ proc[p].pc = "start"
  /\ LET loaded == LoadSessionJson(disk)
     IN proc' = [proc EXCEPT ![p] =
                   IF loaded = NoChatSession THEN [@ EXCEPT !.pc = "failed"]
                   ELSE [@ EXCEPT !.pc = "handling", !.loaded = loaded,
                                  !.session = AppendMessage(loaded,
                                                ChatMessage("user", turn.message, None, None))]]
  /\ UNCHANGED disk
  /\ OneHandler

\* Process p adds its replies and enters save_chat_session: open(file, 'w').
RaceOpen(p, turn) ==
  /\ proc[p].pc = "handling"
  /\ proc[p].session.messages[Len(proc[p].session.messages)].content = turn.message
  /\ proc' = [proc EXCEPT ![p].pc = "opened",
                          ![p].session.messages = @ \o turn.replies]
  /\ disk' = Truncated
  /\ OneHandler

\* json.dump's text reaches the file when it is closed.
RaceClose(p) ==
  /\ proc[p].pc = "opened"
  /\ proc' = [proc EXCEPT ![p].pc = "done",
                          ![p].order = 1 + Cardinality({q \in Processes : proc[q].pc = "done"})]
  /\ disk' = WriteFromStart(disk, SessionJson(proc[p].session))
  /\ OneHandler

RaceNext ==
  \/ \E p \in Processes, turn \in RaceTurns : RaceLoad(p, turn)
  \/ \E p \in Processes, turn \in RaceTurns : RaceOpen(p, turn)
  \/ \E p \in Processes : RaceClose(p)

RaceSpec == RaceInit /\ [][RaceNext]_vars

\* ------------------------------------ two processes on the ledger file
\* Two server processes call append_feedback_lesson side by side.

\* json.dumps(payload): an opening unit, one unit for each lesson, a closing unit
LedgerJson(lessons) ==
  <<Unit("{", <<>>)>> \o [i \in 1..Len(lessons) |-> Unit("lesson", lessons[i])]
    \o <<Unit("}", <<>>)>>

IsLedgerJson(text) ==
  /\ Len(text) >= 2
  /\ text[1].unit = "{"
  /\ text[Len(text)].unit = "}"
  /\ \A i \in 2..(Len(text) - 1) : text[i].unit = "lesson"

\* json.loads(FEEDBACK_PATH.read_text()) of the existing file, with the
\* empty payload taken when it raises.
ReadLedgerJson(text) ==
  IF IsLedgerJson(text)
  THEN [exists |-> TRUE, lessons |-> [i \in 1..(Len(text) - 2) |-> text[i + 1].value]]
  ELSE EmptyLedger

Calling == [pc |-> "start", lesson |-> <<>>, read |-> <<>>, payload |-> <<>>, order |-> 0]

AppendRaceInit ==
  /\ CHATBOT_SEALED = FALSE
  /\ env = [llama_index |-> TRUE, rag_storage |-> TRUE, api_key |-> TRUE]
  /\ query_engine = TRUE
  /\ index = TRUE
  /\ files = NoFiles
  /\ ledger \in {EmptyLedger, OldLedger}
  /\ pc = "idle"
  /\ req = NoRequest
  /\ session = NoChatSession
  /\ loc = NoLocals
  /\ calls = <<>>
  /\ resp = NoResponse
  /\ pre = [files |-> files, ledger |-> ledger]
  /\ nreq = 0
  /\ nops = 0
  /\ rag_dirs = StorageOf(env)
  /\ health = NoHealth
  /\ NoCall
  /\ proc = [p \in Processes |-> Calling]
  /\ disk = LedgerJson(ledger.lessons)

\* Process p reads the file and builds its payload; it writes only when the
\* lesson is new to what it read.
AppendRead(p, lesson) ==
  /\ proc[p].pc = "start"
  /\ LET payload == ReadLedgerJson(disk)
         written == append_feedback_lesson(payload, lesson)
     IN proc' = [proc EXCEPT ![p] =
                   [@ EXCEPT !.pc = IF written = payload THEN "done" ELSE "writing",
                             !.lesson = lesson,
                             !.read = payload.lessons,
                             !.payload = written.lessons]]
  /\ UNCHANGED disk
  /\ OneHandler

\* FEEDBACK_PATH.write_text opens the file with 'w' ...
AppendOpen(p) ==
  /\ proc[p].pc = "writing"
  /\ proc' = [proc EXCEPT ![p].pc = "opened"]
  /\ disk' = Truncated
  /\ OneHandler

\* ... writes the text and closes it.
AppendClose(p) ==
  /\ proc[p].pc = "opened"
  /\ proc' = [proc EXCEPT ![p].pc = "done",
                          ![p].order = 1 + Cardinality({q \in Processes : proc[q].order > 0})]
  /\ disk' = WriteFromStart(disk, LedgerJson(proc[p].payload))
  /\ OneHandler

AppendRaceNext ==
  \/ \E p \in Processes, lesson \in LedgerLessons : AppendRead(p, lesson)
  \/ \E p \in Processes : AppendOpen(p)
  \/ \E p \in Processes : AppendClose(p)

AppendRaceSpec == AppendRaceInit /\ [][AppendRaceNext]_vars

\* ------------------------------------------------------------------ claims

\* A POST /query request has been answered, and nothing came after it.
Answered == pc = "idle" /\ resp.op = "POST /query"

IsPrefixOf(s, t) == Len(s) <= Len(t) /\ SubSeq(t, 1, Len(s)) = s

CallsAt(sites) == {i \in 1..Len(calls) : calls[i].site \in sites}

\* C1: with the seal enabled, every POST /query returns sql_query "" and
\* explanation "ACCESS DENIED", no external call is ever issued, and the
\* session files and the ledger are as they were before the request.
C1_SealedDenies ==
  CHATBOT_SEALED =>
    /\ calls = <<>>
    /\ pc \in {"boot", "idle"}
    /\ resp.op = "POST /query" =>
         /\ resp.status = 200
         /\ resp.sql_query = <<>>
         /\ resp.explanation = <<"ACCESS DENIED">>
         /\ files = pre.files
         /\ ledger = pre.ledger

\* A sealed request that names an existing session has been answered.
C1_Witness ==
  /\ CHATBOT_SEALED
  /\ Answered
  /\ req.session_id \in DOMAIN files
  /\ ledger.exists

\* C2 (amended): with the seal disabled, a POST /query request issues at most
\* seven external calls: at most five retrieval-augmented query calls and at
\* most two raw completion calls.
C2_AtMostSevenCalls ==
  ~CHATBOT_SEALED =>
    /\ Len(calls) <= 7
    /\ Cardinality({i \in 1..Len(calls) : calls[i].api = "query"}) <= 5
    /\ Cardinality({i \in 1..Len(calls) : calls[i].api = "complete"}) <= 2

\* A request for which seven calls were issued.
C2_Witness == ~CHATBOT_SEALED /\ Len(calls) = 7 /\ Answered

\* C2 (as claimed): with the seal disabled, a POST /query request issues at
\* most five external calls.
C2_AtMostFiveCalls == ~CHATBOT_SEALED => Len(calls) <= 5

\* C3: with the seal disabled and the query engine initialized, a request
\* that names a session id with no session file ends with 404 "Session not
\* found", on GET, DELETE and POST /query alike, and creates no session file.
C3_UnknownSessionIs404 ==
  (/\ ~CHATBOT_SEALED
   /\ query_engine
   /\ pc = "idle"
   /\ resp.op # "<None>"
   /\ resp.target \in SessionIds \ DOMAIN pre.files)
  => /\ resp.status = 404
     /\ resp.detail = <<"Session not found">>
     /\ DOMAIN files = DOMAIN pre.files

\* The last operation was append_feedback_lesson(resp.detail), and it took
\* the lesson.
Accepted ==
  /\ resp.op = "append_feedback_lesson"
  /\ resp.detail # <<>>
  /\ resp.detail \notin Range(pre.ledger.lessons)

\* C4: from an empty or absent ledger file, after any sequence of
\* append_feedback_lesson calls the lesson list is within the cap, holds no
\* string twice, and is most-recent-first: an accepted lesson is at index 0,
\* the older entries follow in their order, and what the cap drops is the
\* oldest; a lesson that is not accepted changes nothing.
C4_LedgerCappedDistinctNewestFirst ==
  /\ Len(ledger.lessons) <= LESSON_CAP
  /\ \A i, j \in 1..Len(ledger.lessons) : ledger.lessons[i] = ledger.lessons[j] => i = j
  /\ Accepted =>
       /\ ledger.exists
       /\ ledger.lessons[1] = resp.detail
       /\ Len(ledger.lessons) = Min(Len(pre.ledger.lessons) + 1, LESSON_CAP)
       /\ \A k \in 2..Len(ledger.lessons) : ledger.lessons[k] = pre.ledger.lessons[k - 1]
  /\ (resp.op = "append_feedback_lesson" /\ ~Accepted) => ledger = pre.ledger

\* A lesson was accepted by a full ledger, and the oldest entry was dropped.
C4_Witness ==
  /\ Accepted
  /\ Len(pre.ledger.lessons) = LESSON_CAP
  /\ pre.ledger.lessons[LESSON_CAP] \notin Range(ledger.lessons)

\* A POST /query request was handled with intent feedback.
FeedbackHandled == ~CHATBOT_SEALED /\ Answered /\ loc.intent = "feedback"

\* The lesson of the request: the prefix, then the first MESSAGE_CUT atoms.
LessonOfRequest == <<"User-reported error/context: ">> \o Prefix(req.message, MESSAGE_CUT)

\* C5 (amended): a POST /query request handled with intent feedback puts the
\* lesson "User-reported error/context: " + message[:500] at index 0 of the
\* ledger when the ledger does not hold that lesson yet (the older entries
\* follow, cut at the cap), and leaves the ledger as it is when it does.
C5_FeedbackRecordedOnce ==
  FeedbackHandled =>
    IF LessonOfRequest \in Range(pre.ledger.lessons)
    THEN ledger = pre.ledger
    ELSE /\ ledger.exists
         /\ ledger.lessons = Prefix(<<LessonOfRequest>> \o pre.ledger.lessons, LESSON_CAP)

\* Feedback whose lesson the ledger already held.
C5_Witness == FeedbackHandled /\ LessonOfRequest \in Range(pre.ledger.lessons)

\* C5 (as claimed): every POST /query request handled with intent feedback
\* makes the ledger gain one new entry, the lesson of the request, also when
\* the message was reported before.
C5_FeedbackAlwaysGainsEntry ==
  FeedbackHandled =>
    ledger.lessons = Prefix(<<LessonOfRequest>> \o pre.ledger.lessons, LESSON_CAP)

\* The messages the session of the request had before the request.
MessagesBefore ==
  IF req.session_id \in DOMAIN pre.files THEN pre.files[req.session_id].messages ELSE <<>>

\* C6: a POST /query request handled with a non-query intent returns
\* sql_query "", appends exactly two messages to the session (the user
\* message, then an assistant message with sql_query and explanation unset),
\* persists the session, and issues no retrieval, generation, refinement or
\* table-lock call.
C6_NonQueryTurn ==
  (~CHATBOT_SEALED /\ Answered /\ loc.intent \in {"greet", "irrelevant", "feedback"}) =>
    /\ resp.status = 200
    /\ resp.sql_query = <<>>
    /\ resp.session_id \in DOMAIN files
    /\ files[resp.session_id] = session
    /\ LET before == MessagesBefore
           after == files[resp.session_id].messages
       IN /\ Len(after) = Len(before) + 2
          /\ SubSeq(after, 1, Len(before)) = before
          /\ after[Len(before) + 1] = ChatMessage("user", req.message, None, None)
          /\ after[Len(before) + 2].role = "assistant"
          /\ after[Len(before) + 2].sql_query = None
          /\ after[Len(before) + 2].explanation = None
    /\ \A i \in 1..Len(calls) : calls[i].site = "intent" /\ calls[i].api = "complete"

\* A feedback turn on a session that existed.
C6_Witness ==
  /\ ~CHATBOT_SEALED
  /\ Answered
  /\ loc.intent = "feedback"
  /\ req.session_id \in DOMAIN pre.files

\* C7: with the seal disabled and the query engine not set at startup, a
\* POST /query request completes with a response that carries the fixed
\* placeholder, not with an error status.
C7_PlaceholderWithoutEngine ==
  (~CHATBOT_SEALED /\ ~query_engine /\ Answered) =>
    /\ resp.status = 200
    /\ resp.sql_query = extract_sql_query(FALLBACK_RESPONSE)

\* An unsealed POST /query request that wrote a file has been answered.
Written == ~CHATBOT_SEALED /\ Answered /\ resp.status = 200

\* C8: the session_id stored in every session file is the name of the file,
\* and the session_id of a successful POST /query response is the id of the
\* one file the request wrote.
C8_SessionIdIsFileName ==
  /\ \A id \in DOMAIN files : files[id].session_id = id
  /\ Written =>
       /\ resp.session_id \in DOMAIN files
       /\ files[resp.session_id] = session
       /\ \A id \in DOMAIN files \ {resp.session_id} :
            id \in DOMAIN pre.files /\ files[id] = pre.files[id]
       /\ DOMAIN pre.files \subseteq DOMAIN files

\* A new session was written next to an older file.
C8_Witness ==
  /\ Written
  /\ req.session_id = NoSession
  /\ resp.session_id = "s2"
  /\ "s1" \in DOMAIN files

\* C9: in a sequential run of requests, a session file that stays keeps its
\* messages as a prefix of its new messages and changes only through a
\* successful POST /query on that session, which appends; a session file
\* appears only through a successful POST /query without session_id; and a
\* session file disappears only through DELETE /sessions/{id}.
C9_SessionsAppendOnly ==
  [][\A id \in SessionIds :
       /\ (id \in DOMAIN files /\ id \in DOMAIN files') =>
            /\ IsPrefixOf(files[id].messages, files'[id].messages)
            /\ files'[id] # files[id] =>
                 /\ resp'.op = "POST /query"
                 /\ resp'.status = 200
                 /\ resp'.session_id = id
                 /\ req'.session_id = id
                 /\ Len(files'[id].messages) > Len(files[id].messages)
       /\ (id \notin DOMAIN files /\ id \in DOMAIN files') =>
            /\ resp'.op = "POST /query"
            /\ resp'.status = 200
            /\ resp'.session_id = id
            /\ req'.session_id = NoSession
       /\ (id \in DOMAIN files /\ id \notin DOMAIN files') =>
            /\ resp'.op = "DELETE /sessions/{session_id}"
            /\ resp'.status = 200
            /\ resp'.target = id]_vars

\* A query turn was appended to the messages of a session that existed.
C9_Witness ==
  /\ Written
  /\ loc.intent = "query"
  /\ req.session_id \in DOMAIN pre.files
  /\ Len(pre.files[req.session_id].messages) > 0
  /\ Len(files[req.session_id].messages) > Len(pre.files[req.session_id].messages)

\* A call of the generation stage (the first call or a correction
\* regeneration) raised, and the except clause has run.
GenerationRaised == loc.error # None

\* The except clause takes the minimal-retrieval fallback.
ContextSizeError == Contains(lower(loc.error), <<"context", " ", "size">>) /\ index

\* C10 (amended): when a call of the generation stage raises, the pipeline
\* makes one top-1 fallback call on the same context query if the message of
\* the exception contains "context size" (and the index is loaded), and none
\* otherwise; the placeholder response is used when there is no fallback call
\* or the fallback call raises too; in every case the handler goes on to the
\* refinement.
C10_FallbackOnContextSizeOnly ==
  GenerationRaised =>
    /\ Cardinality(CallsAt({"fallback"})) = (IF ContextSizeError THEN 1 ELSE 0)
    /\ \A i \in CallsAt({"fallback"}) :
         /\ calls[i].api = "query"
         /\ calls[i].top_k = 1
         /\ calls[i].prompt = loc.context_query
    /\ pc = "gen_fallback" \/ loc.refining
    /\ pc = "gen_fallback" => ContextSizeError
    /\ loc.refining =>
         (loc.response_text = FALLBACK_RESPONSE
            <=> (~ContextSizeError \/ loc.fallback_error # None))

\* An exception without "context size" led to the placeholder and to the
\* refinement call, with no fallback call.
C10_Witness ==
  /\ GenerationRaised
  /\ ~ContextSizeError
  /\ pc = "refine"
  /\ loc.response_text = FALLBACK_RESPONSE

\* C10 (as claimed): whenever a generation call raises, exactly one top-1
\* fallback call is made on the same context, the placeholder is used only if
\* that call raises too, and the handler goes on to the refinement.
C10_FallbackOnEveryError ==
  (GenerationRaised /\ loc.refining) =>
    /\ Cardinality(CallsAt({"fallback"})) = 1
    /\ loc.response_text = FALLBACK_RESPONSE => loc.fallback_error # None

\* The refinement pass of the request failed: the validator client could not
\* be built, or llm.complete raised.
RefinementFailed == loc.refining /\ loc.validation_error # None

\* C11 (as claimed): when the refinement pass fails at any point, the request
\* is answered with status 200, the SQL extracted from the pre-refinement
\* response (vertically formatted, unless the table lock regenerated it) and
\* the generic boilerplate explanation (after the "Tables locked" bullet, if
\* tables are locked).
C11_RefinementFailureGivesBoilerplate ==
  (Answered /\ RefinementFailed) =>
    /\ resp.status = 200
    /\ \/ resp.sql_query = vertical_format_sql(extract_sql_query(loc.response_text))
       \/ CallsAt({"lock"}) # {}
    /\ resp.explanation \in
         {GENERIC_EXPLANATION, Bulleted(loc.locked_tables, GENERIC_EXPLANATION)}

\* A request whose refinement call raised was answered with status 200 and an
\* empty explanation.
C11_EmptyExplanation ==
  /\ Answered
  /\ RefinementFailed
  /\ CallsAt({"refine"}) # {}
  /\ resp.status = 200
  /\ resp.explanation = <<>>

\* Where the refinement call raised, the answer never carries the boilerplate.
C11_CompleteRaisedNeverBoilerplate ==
  (Answered /\ RefinementFailed /\ CallsAt({"refine"}) # {} /\ resp.status = 200) =>
    resp.explanation = <<>>

\* Where the validator client could not be built, the answer carries it.
C11_SetupRaisedBoilerplate ==
  (Answered /\ RefinementFailed /\ CallsAt({"refine"}) = {}) =>
    /\ resp.status = 200
    /\ resp.explanation \in
         {GENERIC_EXPLANATION, Bulleted(loc.locked_tables, GENERIC_EXPLANATION)}

\* C12 (as claimed): GET /health reports rag_files_exist, and with it
\* deployment_ready, as true only when a retrieval-storage directory exists
\* and docstore.json, index_store.json and default__vector_store.json are all
\* present in it.
C12_RagFilesExistMeansAllThree ==
  health.status = "healthy" =>
    /\ health.rag_files_exist => IndexPersisted(rag_dirs)
    /\ health.deployment_ready => health.rag_files_exist

\* What the code reports: rag_files_exist is true exactly when one of the
\* candidate directories exists.
C12_RagFilesExistMeansDirectory ==
  health.status = "healthy" =>
    (health.rag_files_exist <=> \E i \in 1..Len(rag_dirs) : rag_dirs[i].exists)

\* s without its blanks and newlines.
NonBlank(s) == SelectSeq(s, LAMBDA a : a \notin WS)

\* C13 (as claimed): vertical_format_sql applied to its own output returns
\* that output, the same string.
C13_FormatIdempotent ==
  (fn = "vertical_format_sql" /\ napp >= 2) => ret = arg

\* What holds instead: the second formatting changes blanks only, and changes
\* nothing when the text has no AND.
C13_FormatIdempotentButForBlanks ==
  (fn = "vertical_format_sql" /\ napp >= 2) =>
    /\ NonBlank(ret) = NonBlank(arg)
    /\ ~(\E i \in 1..Len(arg) : arg[i] = "AND") => ret = arg

\* The function named is called on what its own last call returned.
CalledAgain(name) == fn = name /\ fn' = name /\ ret # None

\* C14 (as claimed): when extract_sql_from_response has returned a SQL string
\* q, extracting again from q returns q unchanged modulo trimming, and the
\* same holds for QueryValidator.extract_sql_query.
C14_ExtractionIdempotent ==
  [][(CalledAgain("extract_sql_from_response") \/ CalledAgain("extract_sql_query"))
       => strip(ret') = strip(ret)]_vars

\* What holds instead: extracting again returns q when q is one SELECT
\* statement that ends with its semicolon; extract_sql_query also returns q
\* when q holds no such statement.
C14_ExtractionIdempotentOnOneStatement ==
  [][/\ (CalledAgain("extract_sql_from_response") \/ CalledAgain("extract_sql_query"))
     /\ ret # <<>>
     /\ LowerAtom(ret[1]) = "select"
     /\ {i \in 1..Len(ret) : ret[i] = ";"} = {Len(ret)}
     => ret' = ret]_vars

\* The atom after s[i], blanks skipped, and the atom after that one.
DotAfter(s, i) == SkipWs(s, i + 1)
ColumnAfter(s, i) == SkipWs(s, DotAfter(s, i) + 1)

\* A table.column reference starts at s[i].
ReferenceAt(s, i) ==
  /\ IsIdentifier(s[i])
  /\ DotAfter(s, i) <= Len(s) /\ s[DotAfter(s, i)] = "."
  /\ ColumnAfter(s, i) <= Len(s) /\ IsIdentifier(s[ColumnAfter(s, i)])

\* The references of s whose lower-cased table is not in the index, or whose
\* lower-cased column is not in that table's column set.
UnknownReferences(s) ==
  {i \in 1..Len(s) :
     /\ ReferenceAt(s, i)
     /\ \/ LowerAtom(s[i]) \notin DOMAIN SCHEMA_INDEX
        \/ LowerAtom(s[ColumnAfter(s, i)]) \notin SCHEMA_INDEX[LowerAtom(s[i])]}

\* C15: with the (non-empty) schema index, check_sql_against_schema returns
\* an error message if and only if the SQL holds a table.column reference
\* whose lower-cased table is not in the index or whose lower-cased column is
\* not in that table's column set; the message names the first such
\* reference; when every reference is in the index it returns None.
C15_SchemaCheckRejectsUnknownPairs ==
  fn = "check_sql_against_schema" =>
    /\ DOMAIN SCHEMA_INDEX # {}
    /\ ret # None <=> UnknownReferences(arg) # {}
    /\ ret # None =>
         LET i == FirstIdx(UnknownReferences(arg))
         IN ret = <<"Invalid reference: ", arg[i], ".", arg[ColumnAfter(arg, i)],
                    " is not in schema.">>

\* A text with a reference in the index, written in upper case, and then a
\* column of another table was rejected for the second reference.
C15_Witness ==
  /\ fn = "check_sql_against_schema"
  /\ Contains(arg, <<"Bills", " ", ".", " ", "BILL_YEAR", ",", " ", "bills", ".", "status">>)
  /\ ret = <<"Invalid reference: ", "bills", ".", "status", " is not in schema.">>

\* C16: classify_intent returns, for every message, one of greet, feedback,
\* query and irrelevant; called once more on the same message it returns the
\* same value; and a call leaves the ledger, the session files and every
\* other part of the state as they were.
C16_ClassifyIntentTotalAndPure ==
  [][fn' = "classify_intent" =>
       /\ Len(ret') = 1 /\ ret'[1] \in INTENTS
       /\ (fn = "classify_intent" /\ arg' = arg) => ret' = ret
       /\ UNCHANGED <<CHATBOT_SEALED, env, query_engine, index, files, ledger, pc, req,
                      session, loc, calls, resp, pre, rag_dirs, health>>]_vars

\* A pasted error was classified twice, with session files on disk.
C16_Witness ==
  /\ fn = "classify_intent"
  /\ napp = 2
  /\ arg = <<"error", " ", "line", " ", "12", " ", "column">>
  /\ ret = <<"feedback">>
  /\ files = OldFiles

\* The trimmed, lower-cased message of the last call of classify_intent.
Trimmed == lower(strip(arg))

\* "error" occurs in the message together with "line", "column" or "syntax"
\* (as substrings: in "errors", in "online").
ErrorReport ==
  /\ \E i \in 1..Len(Trimmed) : Trimmed[i] \in {"error", "errors"}
  /\ \E i \in 1..Len(Trimmed) :
       Trimmed[i] \in {"line", "lines", "online", "column", "columns", "syntax"}

\* The message is one of the short greeting strings, nothing more.
ShortGreeting ==
  Len(Trimmed) = 1 /\ Trimmed[1] \in {"hi", "hello", "hey", "yo", "sup", "hola"}

\* The message starts with "hello".
StartsWithHello == Trimmed # <<>> /\ Trimmed[1] = "hello"

\* C19 (amended): classify_intent returns feedback exactly when the
\* lower-cased message contains "error" together with "line", "column" or
\* "syntax", whatever else it holds; otherwise greet exactly when the trimmed
\* lower-cased message is one of the short greeting strings or starts with
\* "hello"; and query for every other message.
C19_IntentRule ==
  fn = "classify_intent" =>
    /\ ret = <<"feedback">> <=> ErrorReport
    /\ ret = <<"greet">> <=> (~ErrorReport /\ (ShortGreeting \/ StartsWithHello))
    /\ ret = <<"query">> <=> (~ErrorReport /\ ~ShortGreeting /\ ~StartsWithHello)

\* A message that starts with "Hello" and goes on was classified greet.
C19_Witness ==
  /\ fn = "classify_intent"
  /\ arg = <<"Hello", " ", "there", " ", "folio">>
  /\ ret = <<"greet">>

\* C19 (as claimed): feedback as above; otherwise greet exactly when the
\* trimmed lower-cased message is one of the short greeting strings as an
\* exact match; every other message is classified query.
C19_GreetOnExactMatchOnly ==
  fn = "classify_intent" =>
    /\ ret = <<"feedback">> <=> ErrorReport
    /\ ret = <<"greet">> <=> (~ErrorReport /\ ShortGreeting)
    /\ ret = <<"query">> <=> (~ErrorReport /\ ~ShortGreeting)

\* The value is an object of rule lists: a string under system_prompt, a list
\* under each rule key, an object under output_format.
ObjectOfRuleLists(value) ==
  /\ value.kind = "object"
  /\ \A k \in DOMAIN value.fields :
       value.fields[k].kind =
         (CASE k = "system_prompt" -> "str" [] k = "output_format" -> "object"
            [] OTHER -> "list")

\* The handler built is the one of the built-in default configuration.
DefaultHandler ==
  /\ ~ret.raised
  /\ ret.config = get_default_config
  /\ ret.system_prompt = build_system_prompt(get_default_config).text

\* C17 (as claimed): constructing MCPHandler with a rule file that is
\* missing, not parseable as JSON, or JSON that is not an object of rule
\* lists never raises: it yields the built-in default configuration and the
\* system prompt built from it.
C17_InvalidRuleFileGivesDefaults ==
  (fn = "MCPHandler"
     /\ (arg.state \in {"missing", "unparseable"} \/ ~ObjectOfRuleLists(arg.value)))
    => DefaultHandler

\* What holds: a missing or unparseable file gives the defaults, and a file
\* that parses is taken as it is, whatever it holds; the constructor raises
\* only for a value that is not an object of rule lists.
C17_OnlyMissingOrUnparseableGivesDefaults ==
  fn = "MCPHandler" =>
    /\ arg.state \in {"missing", "unparseable"} => DefaultHandler
    /\ arg.state = "parsed" =>
         /\ ~ret.raised => ret.config = arg.value
         /\ ret.raised => ~ObjectOfRuleLists(arg.value)

\* The classifier call of the request raised, or returned a token outside
\* the four labels, and the handler has settled the intent.
ClassifierFailed == loc.classifier_failed /\ loc.intent # "<None>"

\* C18 (as claimed): when the model-based classifier raises or returns a
\* token outside the four labels, the intent process_query acts on is
\* classify_intent(message): a greeting is handled as greet and a pasted
\* error as feedback.
C18_FallbackToRule ==
  ClassifierFailed => loc.intent = classify_intent(req.message)

\* What the code does: the intent is query whenever the classifier failed,
\* whatever the message.
C18_FailedClassifierMeansQuery ==
  ClassifierFailed => loc.intent = "query"

\* The SQL extracted from the first response of the request, if any.
ExtractedSql == loc.sql_query

\* The deny-list check of the extracted SQL fails.
DenyCheckFails == validate_schema_adherence(ExtractedSql) # None

\* The handler has run the schema-index check, and it fails: SQL was
\* extracted, the deny-list correction (if one was issued) has returned
\* without raising, and check_sql_against_schema gives an error.
SchemaCheckFails ==
  /\ check_sql_against_schema(ExtractedSql) # None
  /\ pc # "gen_deny"
  /\ ~(CallsAt({"deny"}) # {} /\ CallsAt({"schema"}) = {} /\ GenerationRaised)

LockCalls == CallsAt({"lock"})

QueryAnswered == ~CHATBOT_SEALED /\ Answered /\ resp.status = 200 /\ loc.intent = "query"

\* The locked tables that are not among the tables of the refined SQL.
Missing == MissingTables(loc.locked_tables, loc.refined_query)

C21_KeptWitness == QueryAnswered /\ Cardinality(LockCalls) = 1 /\ loc.cand = None

\* Tables locked and none missing: no regeneration.
C21_NotNeededWitness == QueryAnswered /\ loc.locked_tables # <<>> /\ LockCalls = {}

\* ---- C22 --------------------------------------------------------------
TablesBullet ==
  <<"<bullet>", " ", "Tables locked:", " ">> \o JoinComma(loc.locked_tables) \o <<"\n">>

\* The assistant message the request stored last.
StoredAnswer ==
  LET ms == files[resp.session_id].messages IN ms[Len(ms)]

LockedAnswered == QueryAnswered /\ loc.locked_tables # <<>>

\* The refiner's explanation is not empty and, trimmed, does not start with a bullet.
Unbulleted == loc.explanation # <<>> /\ Head(strip(loc.explanation) \o <<"">>) # "<bullet>"

\* C22, as claimed: with locked tables the explanation returned and stored
\* always begins with the "Tables locked" bullet.
C22_BulletAlways ==
  LockedAnswered =>
    /\ IsPrefixOf(TablesBullet, resp.explanation)
    /\ IsPrefixOf(TablesBullet, StoredAnswer.explanation)

\* C22, amended: with locked tables, and whatever the lock regeneration did,
\* the explanation returned and stored is the "Tables locked" bullet followed
\* by the refiner's explanation when that explanation is not empty and does
\* not already start with a bullet; otherwise it is the refiner's explanation
\* unchanged, without the bullet.
C22_BulletUnlessEmptyOrBulleted ==
  LockedAnswered =>
    /\ resp.explanation = IF Unbulleted THEN TablesBullet \o loc.explanation
                          ELSE loc.explanation
    /\ StoredAnswer.explanation = resp.explanation
    /\ StoredAnswer.role = "assistant"

\* The bullet was put before an explanation after a lock regeneration.
C22_Witness ==
  /\ LockedAnswered /\ LockCalls # {} /\ Unbulleted
  /\ IsPrefixOf(TablesBullet, resp.explanation)

\* Locked tables and an empty explanation: no bullet.
C22_EmptyWitness == LockedAnswered /\ loc.explanation = <<>> /\ resp.explanation = <<>>

\* Locked tables and an explanation that starts with another bullet.
C22_BulletedWitness ==
  LockedAnswered /\ loc.explanation # <<>> /\ ~Unbulleted /\ resp.explanation = loc.explanation

\* ---- C23 --------------------------------------------------------------
\* The tables a statement names after FROM or JOIN, lower-cased.
ReferencedTables(sql) ==
  {LowerAtom(sql[SkipWs(sql, i + 1)]) :
     i \in {k \in 1..Len(sql) : /\ LowerAtom(sql[k]) \in {"from", "join"}
                                /\ SkipWs(sql, k + 1) <= Len(sql)}}

\* C23: with locked tables, the SQL of the final response names every locked
\* table after FROM or JOIN.
C23_LockedTablesPreserved ==
  LockedAnswered => Range(loc.locked_tables) \subseteq ReferencedTables(resp.sql_query)

\* What the handler does ensure: when its comparison finds no locked table
\* missing, and so issues no lock regeneration, the final SQL names them all.
C23_PreservedWhenNoneMissing ==
  LockedAnswered /\ LockCalls = {} =>
    Range(loc.locked_tables) \subseteq ReferencedTables(resp.sql_query)

\* ---- C24 --------------------------------------------------------------
\* The leftmost capture of each pattern of sql_patterns, in the list's order.
PatternCaptures(s) == <<FencedSql(s), FencedSelect(s), BareSelect(s)>>

Matching(s) == {k \in 1..3 : PatternCaptures(s)[k] # None}

Extracted == fn \in {"extract_sql_from_response", "extract_sql_query"}

\* Where the leftmost match of the fenced-sql and of the bare pattern start.
FencedSqlStart(s) == FirstIdx({i \in 1..Len(s) : LowerAtom(s[i]) = "'''sql"})
BareSelectStart(s) ==
  FirstIdx({k \in 1..Len(s) : /\ LowerAtom(s[k]) = "select"
                              /\ \E e \in (k + 1)..Len(s) : s[e] = ";"})

\* C24: extraction returns the trimmed first match of the first pattern in
\* the order fenced sql block, fenced block holding SELECT ... ;, bare
\* SELECT ... ; that matches anywhere in the text, wherever the other patterns
\* match; when none matches extract_sql_from_response returns None and
\* extract_sql_query returns the whole trimmed text.
C24_FirstPatternWins ==
  Extracted =>
    IF Matching(arg) # {}
    THEN ret = strip(PatternCaptures(arg)[FirstIdx(Matching(arg))])
    ELSE ret = IF fn = "extract_sql_from_response" THEN None ELSE strip(arg)

\* A bare statement stands before a fenced sql block and the block's
\* statement is returned.
C24_Witness ==
  /\ Extracted /\ Matching(arg) = {1, 3}
  /\ BareSelectStart(arg) < FencedSqlStart(arg)
  /\ ret = strip(FencedSql(arg)) /\ ret # strip(BareSelect(arg))

\* No pattern matches: nothing, or the whole trimmed text.
C24_NoMatchWitness ==
  /\ fn = "extract_sql_query" /\ Matching(arg) = {} /\ ret = strip(arg) /\ ret # arg

\* The fenced generic block is returned over a bare statement before it.
C24_GenericWitness ==
  /\ Extracted /\ Matching(arg) = {2, 3}
  /\ ret = strip(FencedSelect(arg)) /\ ret # strip(BareSelect(arg))

\* ---- C25 --------------------------------------------------------------
\* The request in hand, or just answered, is handled as a query.
QueryTurn == ~CHATBOT_SEALED /\ loc.intent = "query" /\ (pc # "idle" \/ Answered)

IsSuffixOf(s, t) == Len(s) <= Len(t) /\ SubSeq(t, Len(t) - Len(s) + 1, Len(t)) = s

ask == needs_clarification(req.message)

Clarification == ChatMessage("assistant", ask \o CLARIFY_SUFFIX, None, None)

\* The messages the request has added to its session so far.
MessagesAdded == SubSeq(session.messages, Len(MessagesBefore) + 1, Len(session.messages))

\* The assistant message of a query turn's answer.
AnswerMessage ==
  ChatMessage("assistant", AnswerContent(resp.sql_query, resp.explanation),
              resp.sql_query, resp.explanation)

\* C25: in a query turn the initial generation call is issued in the same
\* request, whether or not the clarification gate fires.  When it fires the
\* clarification is an assistant message right after the user message and
\* before the final assistant message, and the text given to generation ends
\* with the user's message followed by the default-assumptions line; when it
\* does not fire no clarification is added and the text ends with the user's
\* message unchanged.  (The final assistant message is there once the request
\* has been answered with status 200.)
C25_ClarificationDoesNotBlock ==
  QueryTurn =>
    LET user == ChatMessage("user", req.message, None, None)
        said == IF ask # None THEN <<user, Clarification>> ELSE <<user>>
        user_text == IF ask # None THEN req.message \o DEFAULTS_NOTE ELSE req.message
    IN /\ IsPrefixOf(MessagesBefore, session.messages)
       /\ MessagesAdded = IF QueryAnswered THEN said \o <<AnswerMessage>> ELSE said
       /\ QueryAnswered => files[resp.session_id] = session
       /\ Cardinality(CallsAt({"initial"})) = 1
       /\ calls[2].site = "initial" /\ calls[2].api = "query"
       /\ calls[2].prompt = loc.context_query
       /\ calls[2].prompt = ContextQuery(load_feedback_lessons(pre.ledger), user_text)
       /\ IsSuffixOf(user_text, calls[2].prompt)
       /\ ask = None => ~IsSuffixOf(DEFAULTS_NOTE, calls[2].prompt)

\* The gate fired on a session that existed, and the request was answered
\* with SQL in the same request.
C25_Witness ==
  /\ QueryAnswered /\ ask # None
  /\ req.session_id \in DOMAIN pre.files
  /\ Len(MessagesAdded) = 3
  /\ MessagesAdded[2] = Clarification
  /\ Truthy(resp.sql_query)

\* The gate did not fire.
C25_SilentWitness == QueryAnswered /\ ask = None /\ Len(MessagesAdded) = 2

\* ---- C26 --------------------------------------------------------------
\* The place of each call site in the handler's text.
CALL_ORDER == <<"intent", "initial", "deny", "schema", "fallback", "refine", "lock">>

Rank(site) == CHOOSE k \in 1..Len(CALL_ORDER) : CALL_ORDER[k] = site

\* The call the handler waits for at each position.
AwaitedSite ==
  [gen_initial |-> "initial", gen_deny |-> "deny", gen_schema |-> "schema",
   gen_fallback |-> "fallback", refine |-> "refine", lock |-> "lock"]

RefineCalls == CallsAt({"refine"})

\* building the validator client raised
ValidatorNotBuilt == loc.validation_error = E_SETUP

\* The calls of the request so far are one chain in the order of CALL_ORDER:
\* each is issued after the one before it has returned or raised, the
\* fallback only after a generation call has raised, the refinement only on
\* the finished generation stage's text and followed by nothing but the
\* table-lock regeneration.
CallsInOrder ==
  /\ \A i, j \in 1..Len(calls) : i < j => Rank(calls[i].site) < Rank(calls[j].site)
  /\ calls[1].site = "intent" /\ calls[2].site = "initial"
  /\ pc \in DOMAIN AwaitedSite => calls[Len(calls)].site = AwaitedSite[pc]
  /\ pc \in {"validator", "idle"} => loc.refining
  /\ CallsAt({"fallback"}) # {} => GenerationRaised
  /\ \A i \in RefineCalls :
       /\ loc.refining
       /\ calls[i].prompt = ValidationPrompt(req.message, loc.response_text, MCP_SYSTEM_PROMPT)
       /\ \A j \in (i + 1)..Len(calls) : calls[j].site = "lock"

\* C26, as claimed: the calls of a query turn are in order and the answered
\* request has issued the refinement call exactly once.
C26_RefinedOnEveryPath ==
  QueryTurn => CallsInOrder /\ (Answered => Cardinality(RefineCalls) = 1)

\* C26, amended: the calls of a query turn are in order; the refinement call
\* is issued at most once, and an answered request has issued it exactly once
\* unless building the validator client raised, in which case it has issued
\* none.
C26_RefinedOnceWhenValidatorBuilt ==
  QueryTurn =>
    /\ CallsInOrder
    /\ Cardinality(RefineCalls) <= 1
    /\ ValidatorNotBuilt => RefineCalls = {}
    /\ Answered /\ ~ValidatorNotBuilt => Cardinality(RefineCalls) = 1

\* All seven calls, in order.
C26_Witness ==
  /\ QueryTurn /\ Answered
  /\ [i \in 1..Len(calls) |-> calls[i].site] = CALL_ORDER

\* The placeholder text was refined.
C26_PlaceholderWitness ==
  /\ QueryTurn /\ Answered /\ loc.response_text = FALLBACK_RESPONSE
  /\ Cardinality(RefineCalls) = 1

\* ---- C27 --------------------------------------------------------------
\* Both requests are over and each had loaded the session as it was persisted
\* before either saved.
BothLoadedFirst ==
  \A p \in Processes : proc[p].pc = "done" /\ proc[p].loaded = OldSession

LaterSaver == CHOOSE p \in Processes : proc[p].order = Cardinality(Processes)

\* C27: when both requests loaded the session before either saved, the file
\* left after both saves is exactly what the later saver wrote, the persisted
\* messages followed by the later saver's new messages only, never a mixture
\* of the two writes.
C27_LastWriterWins ==
  BothLoadedFirst =>
    /\ disk = SessionJson(proc[LaterSaver].session)
    /\ LoadSessionJson(disk) = proc[LaterSaver].session
    /\ IsPrefixOf(OldSession.messages, proc[LaterSaver].session.messages)

\* What the code does ensure: a process that closes a file holding no more
\* text than its own leaves exactly its own text, which is the persisted
\* messages followed by its new messages.
C27_WholeWhenNotShorter ==
  [][\A p \in Processes :
       (proc[p].pc = "opened" /\ proc'[p].pc = "done"
          /\ Len(disk) <= Len(SessionJson(proc[p].session)))
       => /\ disk' = SessionJson(proc[p].session)
          /\ IsPrefixOf(proc[p].loaded.messages, LoadSessionJson(disk').messages)]_vars

\* The earlier saver's messages are lost.
C27_LostMessages ==
  /\ BothLoadedFirst
  /\ disk = SessionJson(proc[LaterSaver].session)
  /\ \E p \in Processes \ {LaterSaver} :
       proc[p].session.messages[Len(proc[p].loaded.messages) + 1]
         \notin Range(LoadSessionJson(disk).messages)

\* ---- C28 --------------------------------------------------------------
Distinct(xs) == \A i, j \in 1..Len(xs) : i # j => xs[i] # xs[j]

\* The lessons the ledger held before the calls and those passed to them.
LessonsGiven == Range(pre.ledger.lessons) \cup {proc[p].lesson : p \in Processes}

Writers == {p \in Processes : proc[p].pc \in {"writing", "opened"} \/ proc[p].order > 0}

\* C28: however the reads and the writes of two concurrent
\* append_feedback_lesson calls interleave, every list a call writes and every
\* list read back from the file has at most LESSON_CAP entries, all distinct,
\* and holds nothing but lessons the ledger held or a call was given: a call
\* writes its own lesson before the first entries it read.  Lessons can only
\* be missing.
C28_RaceKeepsCapAndDistinct ==
  /\ LET held == ReadLedgerJson(disk).lessons
     IN /\ Len(held) <= LESSON_CAP
        /\ Distinct(held)
        /\ Range(held) \subseteq LessonsGiven
  /\ \A p \in Writers :
       /\ Len(proc[p].payload) <= LESSON_CAP
       /\ Distinct(proc[p].payload)
       /\ proc[p].payload = Prefix(<<proc[p].lesson>> \o proc[p].read, LESSON_CAP)
       /\ proc[p].lesson # <<>>
       /\ Range(proc[p].read) \subseteq LessonsGiven

\* A lost update: both calls wrote, the file reads back whole, and the lesson
\* of the call that closed first is not in it.
C28_Witness ==
  /\ \A p \in Processes : proc[p].order > 0 /\ proc[p].pc = "done"
  /\ IsLedgerJson(disk)
  /\ \E p \in Processes :
       /\ proc[p].order = 1
       /\ proc[p].lesson \notin Range(ReadLedgerJson(disk).lessons)
  /\ Len(ReadLedgerJson(disk).lessons) = LESSON_CAP

\* ---- C29 --------------------------------------------------------------
Failed == ~CHATBOT_SEALED /\ Answered /\ resp.status # 200

\* C29: a POST /query request that ends with an error status leaves the
\* session files exactly as they were before it, so neither the user's
\* message nor a new session is persisted; while a request is handled the
\* session files change only in the step that answers it with status 200.
C29_FailedRequestWritesNothing ==
  /\ [](Failed => files = pre.files)
  /\ [][(files' # files /\ resp'.op = "POST /query") =>
          /\ pc # "idle" /\ pc' = "idle"
          /\ resp'.status = 200
          /\ files'[resp'.session_id] = session'
          /\ \A id \in DOMAIN files' \ {resp'.session_id} :
               id \in DOMAIN files /\ files'[id] = files[id]]_vars

\* A request on an existing session failed after the handler had added
\* messages to the session it holds.
C29_Witness ==
  /\ Failed
  /\ req.session_id \in DOMAIN pre.files
  /\ Len(session.messages) > Len(pre.files[req.session_id].messages)
  /\ files = pre.files

\* A request without session_id failed: no file for the session it had made.
C29_NewSessionWitness ==
  /\ Failed /\ req.session_id = NoSession
  /\ session # NoChatSession /\ session.session_id \notin DOMAIN files

\* ---- C30 --------------------------------------------------------------
BothCorrected == CallsAt({"deny"}) # {} /\ CallsAt({"schema"}) # {}

\* The generation stage is over and none of its calls raised.
GeneratedWithoutError == loc.refining /\ ~GenerationRaised

====
